---- MODULE Spec2Model ----
(***************************************************************************)
(* A model of the retrieval-quality evaluation harness of Orbis:           *)
(*   - RegulationService.chunk_document     (services/regulation_service)  *)
(*   - ChunkingQualityExperiment            (experiments/experiment_chunk_ *)
(*                                           quality)                      *)
(*   - EmbeddingBenchmark                   (experiments/experiment_       *)
(*                                           embedding_quality)            *)
(* Each subsystem has its own variables and its own specification; the     *)
(* variables of the other subsystems are held at their idle values.        *)
(*                                                                         *)
(* A text is modelled after text.split(): a sequence of words.  A chunk's  *)
(* content, " ".join(words[i:i+size]), is modelled as that sub-sequence of  *)
(* words: join is injective on sequences of whitespace-free, non-empty      *)
(* words, so equality of contents is equality of the word sequences.       *)
(***************************************************************************)
EXTENDS Integers, Sequences, FiniteSets, TLC

\* ------------------------------------------------------------------ bounds
MaxWords == 4     \* longest document, in words
MaxChunk == 3     \* largest chunk_size and overlap requested
MaxFail == 1      \* embedding failures in one chunk_document call
MaxGT == 2        \* ground-truth items in one artifact
MaxSample == 3    \* chunks sampled for ground-truth generation
PoolSize == 2     \* worker threads of the pool (self.max_workers)
MaxQuestions == 2 \* ground-truth items one evaluation run is given
MaxTextLen == 2   \* characters of a retrieved text in the keyword check
MaxKeywords == 4  \* keywords of one ground-truth item
MaxContents == 2  \* distinct chunk contents a benchmark cell indexes
MaxInits == 3     \* calls that ask for the embedding service
MaxThreads == 2   \* threads that call a getter
MaxResets == 1    \* resets of the embedding singleton
MaxTokens == 2    \* tokens in a provider's complete stream

\* ------------------------------------------------------------------- state
VARIABLES
  \* the chunk store and chunk_document
  docs,       \* university_documents: document id -> words of raw_content
  chunks,     \* document_chunks: the committed rows
  nextId,     \* the SERIAL counter of document_chunks.id
  ret,        \* what the last chunk_document call returned or raised
  lastCall,   \* the last call's arguments, windows and embedding failures
  prevCall,   \* the call before it
  cpc,        \* "fresh", "chunked" after one call, "rechunked" after a second
  \* the remapper
  rpc,         \* where the two runs of the experiment are
  gtFile,      \* ground_truths_<size>w.json: the persisted items
  gtPolicy,    \* the policy of the store the items were generated against
  storePolicy, \* the policy of the current store
  storeFails,      \* per document, the windows whose embedding failed in that rebuild
  data,        \* the items _load_and_remap_ground_truths loaded
  remapped,    \* its remapped_data
  notFound,    \* its not_found_count
  \* the ground-truth generator
  gpc,          \* "idle", "running" (inside the executor), "returned", "raised"
  sampled,      \* the chunks passed to _generate_ground_truths
  llmOutcome,   \* per chunk, how its LLM call goes
  future,       \* per chunk, its future: state and result
  attempts,     \* per chunk, the LLM calls made for it
  collected,    \* the futures as_completed has yielded
  groundTruths, \* ground_truths
  failed,       \* failed
  \* the two retrieval evaluators
  epc,              \* "idle", "looping", "reported", "aborted"
  evaluator,        \* "chunk" (_test_retrieval_quality) or "embedding" (_run_benchmark)
  table,            \* the rows of document_chunks the searches run on
  idMap,            \* content_id_map of the embedding benchmark
  queries,          \* ground_truths (chunk) or valid_queries (embedding)
  qIdx,             \* questions the loop has gone through
  results,          \* per evaluated question: found, rank, keyword_match
  lastEntry,        \* the whole entry of the question evaluated last
  correctCount,     \* correct_count
  keywordMatchCount,\* keyword_match_count
  reciprocalRanks,  \* reciprocal_ranks, each times RRScale
  report,           \* the returned report
  \* the keyword check applied to drawn inputs
  kwRetrieved,      \* the texts of the retrieved chunks, best first
  kwKeywords,       \* the item's keywords
  kwOut,            \* what an evaluator computed from them
  \* EmbeddingBenchmark.run
  bpc,              \* "dataset", "reset", "migrate", "prepare", "index",
                    \* "evaluate", "write", "done", "aborted"
  cfgIdx,           \* position in MODELS_TO_TEST
  svc,              \* provider of the embedding singleton, or "none"
  dimOf,            \* the vector width of each provider's model
  schema,           \* document_chunks as declared: exists, dim, by, cell
  stored,           \* its committed rows
  pending,          \* rows inserted in the open transaction
  serial,           \* next value of its id sequence
  content_id_map,   \* content_id_map of _index_chunks
  idxPos,           \* chunks _index_chunks has gone through
  cellLog,          \* per configuration: "pending", "saved", "failed"
  lastMigration,    \* the last _update_table_schema: its cell, the table before, its outcome
  \* ChunkingQualityExperiment.run
  wpc,              \* "rechunk", "ground_truth", "evaluate", "save", "done", "aborted"
  sizeIdx,          \* position in self.chunk_sizes
  gtExists,         \* per chunk size: the ground-truth file exists
  ground_truths,    \* ground_truths of the cell
  sizeLog,          \* per chunk size: "pending", "reported", "skipped", "raised"
  written,          \* the files this run has saved, by name
  trace,            \* the steps the run has entered, in order
  genStats,         \* per chunk size: how the ground truth was obtained
  cellReport,       \* the report returned by the evaluator of the cell
  \* services/embedding_service
  EMBEDDING_PROVIDER,  \* the module global: "tei" or "ollama"
  embedding_service,   \* _embedding_service: the singleton, or NoService
  initLog,             \* one record per call that asked for the service
  \* threads calling get_embedding_service / get_rag_service
  singleton,    \* per getter: the module global, an instance or None
  lockOf,       \* per getter: the thread holding its lock, or NoThread
  stack,        \* per thread: the getter calls it is in, innermost last
  status,       \* per thread: "idle", "calling", "done", "raised"
  got,          \* per thread: what its call returned
  span,         \* per thread: the reset count when its call began and ended
  resets,       \* resets of the embedding singleton so far
  instances,    \* the instances constructed: getter, id, reset count when stored
  \* LLMService.generate_response
  primary,      \* self.primary: absent, or how its stream goes
  fallback,     \* self.fallback: absent, or how its stream goes
  lpc,          \* "primary", "fallback", "unavailable", "done"
  out           \* the tokens generate_response has yielded

storeVars == <<docs, chunks, nextId>>
callVars == <<ret, lastCall, prevCall, cpc>>
remapVars == <<rpc, gtFile, gtPolicy, storePolicy, storeFails, data, remapped, notFound>>
genVars == <<gpc, sampled, llmOutcome, future, attempts, collected, groundTruths, failed>>
evalVars == <<epc, evaluator, table, idMap, queries, qIdx, results, lastEntry,
              correctCount, keywordMatchCount, reciprocalRanks, report>>
kwVars == <<kwRetrieved, kwKeywords, kwOut>>
benchVars == <<bpc, cfgIdx, svc, dimOf, schema, stored, pending, serial,
               content_id_map, idxPos, cellLog, lastMigration>>
sweepVars == <<wpc, sizeIdx, gtExists, ground_truths, sizeLog, written, trace,
               genStats, cellReport>>
provVars == <<EMBEDDING_PROVIDER, embedding_service, initLog>>
threadVars == <<singleton, lockOf, stack, status, got, span, resets, instances>>
llmVars == <<primary, fallback, lpc, out>>
vars == <<storeVars, callVars, remapVars, genVars, evalVars, kwVars, benchVars, sweepVars,
          provVars, threadVars, llmVars>>

\* What the steps of each subsystem leave alone.
ChunkFrame == UNCHANGED <<remapVars, genVars, evalVars, kwVars, benchVars, sweepVars,
    provVars, threadVars, llmVars>>
RemapFrame == UNCHANGED <<callVars, genVars, evalVars, kwVars, benchVars, sweepVars,
    provVars, threadVars, llmVars>>
GenFrame == UNCHANGED <<storeVars, callVars, remapVars, evalVars, kwVars, benchVars, sweepVars,
    provVars, threadVars, llmVars>>
EvalFrame == UNCHANGED <<storeVars, callVars, remapVars, genVars, kwVars, benchVars, sweepVars,
    provVars, threadVars, llmVars>>
KwFrame == UNCHANGED <<storeVars, callVars, remapVars, genVars, evalVars, benchVars, sweepVars,
    provVars, threadVars, llmVars>>
BenchFrame == UNCHANGED <<storeVars, callVars, remapVars, genVars, evalVars, kwVars, sweepVars,
    provVars, threadVars, llmVars>>
SweepFrame == UNCHANGED <<docs, callVars, remapVars, genVars, evalVars, kwVars, benchVars,
    provVars, threadVars, llmVars>>
ProvFrame == UNCHANGED <<storeVars, callVars, remapVars, genVars, evalVars, kwVars, benchVars,
    sweepVars, threadVars, llmVars>>
ThreadFrame == UNCHANGED <<storeVars, callVars, remapVars, genVars, evalVars, kwVars, benchVars,
    sweepVars, provVars, llmVars>>
LlmFrame == UNCHANGED <<storeVars, callVars, remapVars, genVars, evalVars, kwVars, benchVars,
    sweepVars, provVars, threadVars>>

\* ---------------------------------------------------------------- helpers
Min(a, b) == IF a < b THEN a ELSE b

\* A text of n words that repeats with period p: p = 1 is one word repeated,
\* p >= n is n different words.  Words are numbered.
Text(n, p) == [k \in 1..n |-> (k - 1) % p]
Texts == {Text(n, p) : n \in 0..MaxWords, p \in {1, 2, MaxWords}}
LongTexts == {Text(MaxWords, p) : p \in {1, 2, MaxWords}}

\* ============================================================ the chunker
DocIds == {1, 2}
NoDocId == 1 + Cardinality(DocIds)      \* an id no document has
ChunkCap == 150                          \* the cap on chunk_size

NoCall == [kind |-> "none"]

\* (mutant) the requested size is used as it is
CappedSize_NoCap(chunk_size) == chunk_size

\* if chunk_size > 150: chunk_size = 150
CappedSize(chunk_size) == IF chunk_size > ChunkCap THEN ChunkCap ELSE chunk_size

\* for i in range(start, len(words), step): chunks.append(words[i : i + size]),
\* for step > 0.
RECURSIVE WindowsFrom(_, _, _, _)
WindowsFrom(words, i, size, step) ==
  IF i >= Len(words) THEN <<>>
  ELSE <<SubSeq(words, i + 1, Min(i + size, Len(words)))>>
         \o WindowsFrom(words, i + step, size, step)

\* (mutant) a negative step is replaced by the window size
Windows_StepRepaired(words, chunk_size, overlap) ==
  LET size == CappedSize(chunk_size)
      step == size - overlap
  IN IF step > 0 THEN WindowsFrom(words, 0, size, step)
     ELSE IF step < 0 THEN WindowsFrom(words, 0, size, size) ELSE <<>>

\* The list `chunks` built by chunk_document.  range() with a negative step
\* from 0 to len(words) >= 0 is empty; a zero step raises (see ChunkDocument).
Windows(words, chunk_size, overlap) ==
  LET size == CappedSize(chunk_size)
      step == size - overlap
  IN IF step > 0 THEN WindowsFrom(words, 0, size, step) ELSE <<>>

\* (mutant) the loop over the windows stops at the first failing embedding
NewRows_StopAtFailure(d, windows, failing, first) ==
  { [id |-> first + i - 1,
     document_id |-> d,
     chunk_index |-> i - 1,
     content |-> windows[i]] : i \in {j \in 1..Len(windows) : \A k \in 1..j : k \notin failing} }

\* The rows added for the windows whose embedding succeeded, in enumerate
\* order; the SERIAL column numbers them from `first` in insertion order.
NewRows(d, windows, failing, first) ==
  { [id |-> first + Cardinality({k \in 1..(i - 1) : k \notin failing}),
     document_id |-> d,
     chunk_index |-> i - 1,
     content |-> windows[i]] : i \in (1..Len(windows)) \ failing }

\* (mutant) the earlier chunks of the document are kept
DeleteChunksOf_Additive(rows, d) == rows

\* self.db.query(DocumentChunk).filter(document_id == d).delete()
DeleteChunksOf(rows, d) == {c \in rows : c.document_id # d}

\* The failure sets a call may meet: at most MaxFail windows fail to embed.
FailureSets(windows) == {f \in SUBSET (1..Len(windows)) : Cardinality(f) <= MaxFail}

\* The table after a chunk_document call on an existing document with a
\* non-zero step: the document's rows deleted, the new rows added, committed.
StoreAfterChunk(rows, d, windows, failing, first) ==
  DeleteChunksOf(rows, d) \cup NewRows(d, windows, failing, first)

\* (mutant) every exception of the service is answered as a server error
RouteStatus_Generic(kind) == IF kind = "ok" THEN 200 ELSE 500

\* The answer of POST /regulations/chunk to an outcome of the service call:
\* the count, 404 for a ValueError, 500 for any other exception.  Both
\* "Document not found" and range()'s zero step are ValueErrors.
RouteStatus(kind) ==
  CASE kind = "ok" -> 200
    [] kind \in {"not_found", "value_error"} -> 404
    [] OTHER -> 500

\* chunk_document(document_id, chunk_size, overlap); `failing` is the set of
\* windows (1-based) whose embed_text call raises.
ChunkDocument(d, chunk_size, overlap, failing) ==
  /\ ChunkFrame
  /\ cpc \in {"fresh", "chunked"}
  /\ cpc' = IF cpc = "fresh" THEN "chunked" ELSE "rechunked"
  /\ prevCall' = lastCall
  /\ UNCHANGED docs
  /\ IF d \notin DOMAIN docs
     THEN /\ failing = {}
          /\ ret' = [kind |-> "not_found", http |-> RouteStatus("not_found")]
          /\ lastCall' = [kind |-> "not_found", doc |-> d, before |-> chunks,
                          first |-> nextId]
          /\ UNCHANGED <<chunks, nextId>>
     ELSE IF CappedSize(chunk_size) - overlap = 0
     THEN /\ failing = {}
          /\ ret' = [kind |-> "value_error", http |-> RouteStatus("value_error")]
          /\ lastCall' = [kind |-> "value_error", doc |-> d, before |-> chunks,
                          first |-> nextId, chunk_size |-> chunk_size,
                          overlap |-> overlap]
          /\ UNCHANGED <<chunks, nextId>>
     ELSE LET windows == Windows(docs[d], chunk_size, overlap)
              rows    == NewRows(d, windows, failing, nextId)
          IN /\ failing \in FailureSets(windows)
             /\ chunks' = StoreAfterChunk(chunks, d, windows, failing, nextId)
             /\ nextId' = nextId + Cardinality(rows)
             /\ ret' = [kind |-> "ok", count |-> Cardinality(rows),
                        http |-> RouteStatus("ok")]
             /\ lastCall' = [kind |-> "ok", doc |-> d, chunk_size |-> chunk_size,
                             overlap |-> overlap, windows |-> windows,
                             failed |-> failing, created |-> {r.id : r \in rows},
                             before |-> chunks, first |-> nextId]

\* The documents exist (ingested before the harness runs); no chunk yet.
\* Document 2 is one word, which document 1 may contain too.
StoreInit(texts) ==
  /\ \E t \in texts : docs = (1 :> t) @@ (2 :> Text(1, 1))
  /\ chunks = {}
  /\ nextId = 1

CallInit ==
  /\ ret = NoCall
  /\ lastCall = NoCall
  /\ prevCall = NoCall
  /\ cpc = "fresh"

ChunkNext ==
  \E d \in DocIds \cup {NoDocId}, chunk_size \in 1..MaxChunk, overlap \in 0..MaxChunk :
    \E failing \in SUBSET (1..MaxWords) :
      ChunkDocument(d, chunk_size, overlap, failing)

\* Calls around the cap: documents of about one and two windows of ChunkCap
\* words, sizes below, at and above the cap, overlaps below, at and above it;
\* the first window's embedding may fail.
CapTexts == {Text(n, n) : n \in {ChunkCap - 1, ChunkCap + 1, 2 * ChunkCap + 1}}
CapSizes == {ChunkCap - 1, ChunkCap, ChunkCap + 1, 2 * ChunkCap}
CapOverlaps == {0, ChunkCap \div 2, ChunkCap, ChunkCap + 1}

CapNext ==
  \E d \in DocIds \cup {NoDocId}, chunk_size \in CapSizes, overlap \in CapOverlaps :
    \E failing \in SUBSET {1} :
      ChunkDocument(d, chunk_size, overlap, failing)

\* ================================================= rebuilding the store
\* The (chunk_size, overlap) pairs the experiment uses: overlap < chunk_size.
Policies == {p \in (1..MaxChunk) \X (0..MaxChunk) : p[2] < p[1]}

\* db.query(UniversityDocument).all() lists the documents; the order decides
\* only which identifiers the chunks get, and is taken to be by id.
DocOrder == <<1, 2>>

\* BaseExperiment.chunk_all_documents: chunk_document for each document in
\* turn; fails[d] is the set of windows of d whose embedding fails.
RECURSIVE ChunkAllFrom(_, _, _, _, _, _)
ChunkAllFrom(rows, first, order, k, policy, fails) ==
  IF k > Len(order) THEN [rows |-> rows, next |-> first]
  ELSE LET d == order[k]
           windows == Windows(docs[d], policy[1], policy[2])
           added == NewRows(d, windows, fails[d], first)
       IN ChunkAllFrom(StoreAfterChunk(rows, d, windows, fails[d], first),
                       first + Cardinality(added), order, k + 1, policy, fails)

\* The failure patterns of one chunk_all_documents run: every embedding
\* succeeds, or that of one window fails.
NoFailure == [d \in DocIds |-> {}]
FailurePatterns(policy) ==
  {NoFailure} \cup
  UNION {{[NoFailure EXCEPT ![d] = {k}] : k \in 1..Len(Windows(docs[d], policy[1], policy[2]))} :
         d \in DocIds}

\* BaseExperiment.delete_all_chunks
DeleteAllChunks(rows) == {}

\* delete_all_chunks() then chunk_all_documents(chunk_size, overlap)
Rebuilt(rows, first, order, policy, fails) ==
  ChunkAllFrom(DeleteAllChunks(rows), first, order, 1, policy, fails)

\* ============================================================ the remapper
NoPolicy == <<>>

\* The enumerations of a finite set.
Orderings(S) == {o \in [1..Cardinality(S) -> S] : \A i, j \in DOMAIN o : o[i] = o[j] => i = j}

\* (mutant) the item keeps the first word of the chunk only
GroundTruthItem_FirstWord(chunk, q) ==
  [chunk_id |-> chunk.id, chunk_content |-> SubSeq(chunk.content, 1, 1), q |-> q]

\* The item _generate_single_ground_truth returns for a chunk; q stands for
\* the generated question, answer and keywords.
GroundTruthItem(chunk, q) ==
  [chunk_id |-> chunk.id, chunk_content |-> chunk.content, q |-> q]

\* (mutant) the stale identifier is kept
Remap_Stale(item, chunk) == item

\* item["chunk_id"] = chunk.id
Remap(item, chunk) == [item EXCEPT !.chunk_id = chunk.id]

\* db.query(DocumentChunk).filter_by(content=content_to_match): the rows that
\* .first() may return (no ORDER BY: any of them).
MatchesOf(rows, content) == {c \in rows : c.content = content}

RemapInit ==
  /\ rpc = "start"
  /\ gtFile = <<>>
  /\ gtPolicy = NoPolicy
  /\ storePolicy = NoPolicy
  /\ storeFails = NoFailure
  /\ data = <<>>
  /\ remapped = <<>>
  /\ notFound = 0

\* Steps 1-2 of a cell: the store is wiped and rebuilt for a policy.
RebuildStore ==
  /\ rpc \in {"start", "saved"}
  /\ \E policy \in Policies :
       \E fails \in FailurePatterns(policy) :
         LET r == Rebuilt(chunks, nextId, DocOrder, policy, fails)
         IN /\ chunks' = r.rows
            /\ nextId' = r.next
            /\ storePolicy' = policy
            /\ storeFails' = fails
  /\ rpc' = IF rpc = "start" THEN "stored" ELSE "restored"
  /\ UNCHANGED <<docs, gtFile, gtPolicy, data, remapped, notFound>>
  /\ RemapFrame

\* Steps 3-5 of the first run: chunks are sampled, the items of those whose
\* generation succeeded are saved, in completion order.
SaveGroundTruths ==
  /\ rpc = "stored"
  /\ \E S \in {T \in SUBSET chunks : Cardinality(T) <= MaxGT} :
       \E o \in Orderings(S) :
         gtFile' = [k \in 1..Cardinality(S) |-> GroundTruthItem(o[k], k)]
  /\ gtPolicy' = storePolicy
  /\ rpc' = "saved"
  /\ UNCHANGED <<storeVars, storePolicy, storeFails, data, remapped, notFound>>
  /\ RemapFrame

\* _load_and_remap_ground_truths, the load: json.load of the artifact, or
\* `return []` when it raises.
LoadGroundTruths ==
  /\ rpc = "restored"
  /\ \/ /\ data' = gtFile
        /\ rpc' = "remapping"
     \/ /\ data' = <<>>
        /\ rpc' = "load_failed"
  /\ remapped' = <<>>
  /\ notFound' = 0
  /\ UNCHANGED <<storeVars, gtFile, gtPolicy, storePolicy, storeFails>>
  /\ RemapFrame

\* One iteration of `for item in data`.
RemapItem ==
  /\ rpc = "remapping"
  /\ Len(remapped) + notFound < Len(data)
  /\ LET item == data[Len(remapped) + notFound + 1]
         found == MatchesOf(chunks, item.chunk_content)
     IN IF found # {}
        THEN /\ \E chunk \in found : remapped' = Append(remapped, Remap(item, chunk))
             /\ UNCHANGED notFound
        ELSE /\ notFound' = notFound + 1
             /\ UNCHANGED remapped
  /\ UNCHANGED <<storeVars, rpc, gtFile, gtPolicy, storePolicy, storeFails, data>>
  /\ RemapFrame

\* `return remapped_data`
RemapReturn ==
  /\ rpc = "remapping"
  /\ Len(remapped) + notFound = Len(data)
  /\ rpc' = "done"
  /\ UNCHANGED <<storeVars, gtFile, gtPolicy, storePolicy, storeFails, data, remapped, notFound>>
  /\ RemapFrame

RemapNext ==
  \/ RebuildStore
  \/ SaveGroundTruths
  \/ LoadGroundTruths
  \/ RemapItem
  \/ RemapReturn

\* ============================================== the ground-truth generator
\* How one LLM call can go: a JSON object with question, expected_answer and
\* keywords; an exception from the service; a response json.loads or the key
\* lookups reject.
LlmOutcomes == {"ok", "error", "unparsable"}

\* The chunks a run samples: n rows of the store, some with the same content.
SampleOf(n) == [i \in 1..n |-> [id |-> i, document_id |-> 1, chunk_index |-> i - 1,
                                 content |-> Text(1 + (i % 2), 1)]]

\* (mutant) the worker lets the exception out, and future.result() raises it
GenerateSingle_NoCatch(chunk, i, outcome) ==
  IF outcome = "ok" THEN [kind |-> "item", item |-> GroundTruthItem(chunk, i)]
  ELSE [kind |-> "exception"]

\* _generate_single_ground_truth: the item, or None for any exception.
GenerateSingle(chunk, i, outcome) ==
  IF outcome = "ok" THEN [kind |-> "item", item |-> GroundTruthItem(chunk, i)]
  ELSE [kind |-> "none"]

Queued == [st |-> "queued"]
Running == [st |-> "running"]

GenInit ==
  /\ gpc = "idle"
  /\ sampled = <<>>
  /\ llmOutcome = <<>>
  /\ future = <<>>
  /\ attempts = <<>>
  /\ collected = {}
  /\ groundTruths = <<>>
  /\ failed = 0

\* _generate_ground_truths(chunks) up to the end of the submit loop: one
\* future per chunk, queued in submission order.
GenSubmitAll ==
  /\ gpc = "idle"
  /\ \E n \in 0..MaxSample :
       /\ sampled' = SampleOf(n)
       /\ llmOutcome' \in [1..n -> LlmOutcomes]
       /\ future' = [i \in 1..n |-> Queued]
       /\ attempts' = [i \in 1..n |-> 0]
  /\ gpc' = "running"
  /\ UNCHANGED <<collected, groundTruths, failed>>
  /\ GenFrame

\* The tasks whose LLM call is in flight.
InFlight(fut) == {j \in DOMAIN fut : fut[j] = Running}

\* (mutant) a thread per task
FreeWorker_Unbounded(fut) == TRUE

\* ThreadPoolExecutor(max_workers=self.max_workers): a worker is idle
FreeWorker(fut) == Cardinality(InFlight(fut)) < PoolSize

\* A free worker takes the oldest queued task and starts its LLM call.
GenStartTask(i) ==
  /\ gpc = "running"
  /\ i \in DOMAIN future
  /\ future[i] = Queued
  /\ \A j \in 1..(i - 1) : future[j] # Queued
  /\ FreeWorker(future)
  /\ future' = [future EXCEPT ![i] = Running]
  /\ attempts' = [attempts EXCEPT ![i] = @ + 1]
  /\ UNCHANGED <<gpc, sampled, llmOutcome, collected, groundTruths, failed>>
  /\ GenFrame

\* The call of task i is over; the future holds what the worker returned.
GenFinishTask(i) ==
  /\ gpc = "running"
  /\ i \in DOMAIN future
  /\ future[i] = Running
  /\ future' = [future EXCEPT ![i] =
                  [st |-> "done", res |-> GenerateSingle(sampled[i], i, llmOutcome[i])]]
  /\ UNCHANGED <<gpc, sampled, llmOutcome, attempts, collected, groundTruths, failed>>
  /\ GenFrame

\* One iteration of `for future in as_completed(futures)`: a finished future
\* not yet yielded; future.result() returns the worker's value or raises
\* its exception.
GenCollect(i) ==
  /\ gpc = "running"
  /\ i \in DOMAIN future
  /\ i \notin collected
  /\ future[i].st = "done"
  /\ collected' = collected \cup {i}
  /\ CASE future[i].res.kind = "item" ->
            /\ groundTruths' = Append(groundTruths, future[i].res.item)
            /\ UNCHANGED <<failed, gpc>>
       [] future[i].res.kind = "none" ->
            /\ failed' = failed + 1
            /\ UNCHANGED <<groundTruths, gpc>>
       [] OTHER ->
            /\ gpc' = "raised"
            /\ UNCHANGED <<groundTruths, failed>>
  /\ UNCHANGED <<sampled, llmOutcome, future, attempts>>
  /\ GenFrame

\* Every future was yielded: the executor is left and ground_truths returned.
GenReturn ==
  /\ gpc = "running"
  /\ collected = DOMAIN future
  /\ gpc' = "returned"
  /\ UNCHANGED <<sampled, llmOutcome, future, attempts, collected, groundTruths, failed>>
  /\ GenFrame

GenNext ==
  \/ GenSubmitAll
  \/ \E i \in 1..MaxSample : GenStartTask(i)
  \/ \E i \in 1..MaxSample : GenFinishTask(i)
  \/ \E i \in 1..MaxSample : GenCollect(i)
  \/ GenReturn

\* ================================================ the retrieval evaluators
\* Here a content and a keyword are strings: sequences of characters.
TopK == 3                      \* search_regulations(question, limit=3); LIMIT 3
EvalRows == TopK + 1           \* rows in the store: one more than the cutoff
RRScale == TopK * (TopK - 1)   \* reciprocal ranks are kept times 6: 6, 3, 2, 0

\* str.lower() on the characters of the model's alphabet.
LowerChar(c) == CASE c = "A" -> "a" [] c = "B" -> "b" [] c = "C" -> "c" [] OTHER -> c
Lower(str) == [i \in DOMAIN str |-> LowerChar(str[i])]

\* Python's `sub in text`
Contains(text, sub) ==
  \E off \in 0..(Len(text) - Len(sub)) : SubSeq(text, off + 1, off + Len(sub)) = sub

\* The content of the i-th row of the store; with `dup` rows 1 and 2 hold the
\* same text (two documents, or two windows, with the same words).
ContentOfRow(i, dup) ==
  CASE i = 1 -> <<"a", "b">>
    [] i = 2 -> IF dup THEN <<"a", "b">> ELSE <<"B", "c">>
    [] i = 3 -> <<"c">>
    [] OTHER -> <<"A", "a">>

\* The keywords the generation extracted from a chunk.
KeywordsOf(content) ==
  CASE content = <<"a", "b">> -> << <<"A">>, <<"c">> >>
    [] content = <<"B", "c">> -> << <<"b">>, <<"C">>, <<"a">> >>
    [] content = <<"c">>      -> << >>
    [] OTHER                  -> << <<"b">> >>

StoreOf(n, dup) == {[id |-> i, content |-> ContentOfRow(i, dup)] : i \in 1..n}

\* What the vector search may return: min(K, rows) different rows, in any
\* order (the order is the embedding backend's).
TopLists(rows) ==
  LET n == IF Cardinality(rows) < TopK THEN Cardinality(rows) ELSE TopK
  IN {l \in [1..n -> rows] : \A i, j \in 1..n : l[i] = l[j] => i = j}

\* list.index(x) + 1 for x in the list
RankIn(ids, x) == CHOOSE r \in 1..Len(ids) : ids[r] = x /\ \A j \in 1..(r - 1) : ids[j] # x

Occurs(ids, x) == \E r \in 1..Len(ids) : ids[r] = x

\* retrieved_ids.index(expected) + 1 if found else None (0 stands for None)
RankOrNone(ids, x) == IF Occurs(ids, x) THEN RankIn(ids, x) ELSE 0

\* 1 / rank, or 0, times RRScale
ReciprocalRank(rank) == IF rank = 0 THEN 0 ELSE RRScale \div rank

\* [kw for kw in keywords if kw.lower() in text.lower()]
KeywordsFound(text, keywords) ==
  SelectSeq(keywords, LAMBDA kw : Contains(Lower(text), Lower(kw)))

\* (mutant) the keywords are looked for in every retrieved chunk
ChunkKeywordsFound_AnyRank(retrieved_chunk_data, keywords) ==
  SelectSeq(keywords, LAMBDA kw :
    \E r \in DOMAIN retrieved_chunk_data :
      Contains(Lower(retrieved_chunk_data[r].content), Lower(kw)))

\* _test_retrieval_quality: keywords_found
ChunkKeywordsFound(retrieved_chunk_data, keywords) ==
  IF retrieved_chunk_data # <<>> /\ keywords # <<>>
  THEN KeywordsFound(retrieved_chunk_data[1].content, keywords)
  ELSE <<>>

\* _test_retrieval_quality: keyword_match
ChunkKeywordMatch(keywords_found, keywords) ==
  IF keywords # <<>> THEN 2 * Len(keywords_found) >= Len(keywords) ELSE FALSE

\* EmbeddingBenchmark._check_keyword_match(retrieved_text, keywords)
CheckKeywordMatch(retrieved_text, keywords) ==
  IF keywords = <<>> THEN [found |-> <<>>, is_match |-> FALSE]
  ELSE LET found == KeywordsFound(retrieved_text, keywords)
       IN [found |-> found, is_match |-> 2 * Len(found) >= Len(keywords)]

\* The entry _test_retrieval_quality appends for one question: `retrieved`
\* are the rows the search returned, `retrieved_chunk_data` the rows the
\* content lookups returned for them.
ChunkEntry(gt, retrieved, retrieved_chunk_data) ==
  LET retrieved_ids == [r \in DOMAIN retrieved_chunk_data |-> retrieved_chunk_data[r].id]
      rank == RankOrNone(retrieved_ids, gt.chunk_id)
      keywords_found == ChunkKeywordsFound(retrieved_chunk_data, gt.keywords)
  IN [expected_chunk_id |-> gt.chunk_id,
      retrieved_chunk_ids |-> retrieved_ids,
      found |-> Occurs(retrieved_ids, gt.chunk_id),
      rank |-> rank,
      rr |-> ReciprocalRank(rank),
      keywords |-> gt.keywords,
      keywords_found |-> keywords_found,
      keyword_match |-> ChunkKeywordMatch(keywords_found, gt.keywords),
      searched |-> [r \in DOMAIN retrieved |-> retrieved[r].id],
      texts |-> [r \in DOMAIN retrieved |-> retrieved[r].content]]

\* The entry _run_benchmark appends for one question.
EmbeddingEntry(item, retrieved) ==
  LET target_id == idMap[item.chunk_content]
      retrieved_contents == [r \in DOMAIN retrieved |-> retrieved[r].content]
      known == SelectSeq(retrieved_contents, LAMBDA c : c \in DOMAIN idMap)
      retrieved_ids == [r \in DOMAIN known |-> idMap[known[r]]]
      rank == RankOrNone(retrieved_ids, target_id)
      top_text == IF retrieved_contents # <<>> THEN retrieved_contents[1] ELSE <<>>
      kw == CheckKeywordMatch(top_text, item.keywords)
  IN [expected_chunk_id |-> target_id,
      retrieved_chunk_ids |-> retrieved_ids,
      found |-> Occurs(retrieved_ids, target_id),
      rank |-> rank,
      rr |-> ReciprocalRank(rank),
      keywords |-> item.keywords,
      keywords_found |-> kw.found,
      keyword_match |-> kw.is_match,
      searched |-> [r \in DOMAIN retrieved |-> retrieved[r].id],
      texts |-> retrieved_contents]

\* What the variable `results` keeps of an entry.
Brief(entry) == [found |-> entry.found, rank |-> entry.rank,
                 keyword_match |-> entry.keyword_match]

RECURSIVE SumSeq(_)
SumSeq(q) == IF q = <<>> THEN 0 ELSE Head(q) + SumSeq(Tail(q))

\* n / d if d else 0, as a fraction <<numerator, denominator>>
Ratio(n, d) == IF d = 0 THEN <<0, 1>> ELSE <<n, d>>

NoEntry == [found |-> FALSE, rank |-> 0, none |-> TRUE]

EvalInit ==
  /\ epc = "idle"
  /\ evaluator = "none"
  /\ table = {}
  /\ idMap = <<>>
  /\ queries = <<>>
  /\ qIdx = 0
  /\ results = <<>>
  /\ lastEntry = NoEntry
  /\ correctCount = 0
  /\ keywordMatchCount = 0
  /\ reciprocalRanks = <<>>
  /\ report = [none |-> TRUE]

\* The ground-truth item generated from a row of the store.
EvalItem(row) == [chunk_id |-> row.id, chunk_content |-> row.content,
                  keywords |-> KeywordsOf(row.content)]

\* _test_retrieval_quality(ground_truths, chunk_size) is entered: the store
\* was rebuilt, the ground truth refers to its rows.
ChunkEvalStart ==
  /\ epc = "idle"
  /\ \E n \in 1..EvalRows, dup \in BOOLEAN :
       /\ table' = StoreOf(n, dup)
       /\ \E m \in 0..MaxQuestions :
            \E pick \in [1..m -> StoreOf(n, dup)] :
              queries' = [k \in 1..m |-> EvalItem(pick[k])]
  /\ evaluator' = "chunk"
  /\ epc' = "looping"
  /\ UNCHANGED <<idMap, qIdx, results, lastEntry, correctCount, keywordMatchCount,
                 reciprocalRanks, report>>
  /\ EvalFrame

\* One iteration of `for i, gt in enumerate(ground_truths)`; nothing in the
\* loop catches an exception of search_regulations.
ChunkEvalQuestion ==
  /\ epc = "looping" /\ evaluator = "chunk"
  /\ qIdx < Len(queries)
  /\ \/ /\ epc' = "aborted"
        /\ UNCHANGED <<qIdx, results, lastEntry, correctCount, keywordMatchCount,
                       reciprocalRanks>>
     \/ \E retrieved \in TopLists(table) :
          \E retrieved_chunk_data \in [DOMAIN retrieved -> table] :
            /\ \A r \in DOMAIN retrieved :
                 retrieved_chunk_data[r] \in MatchesOf(table, retrieved[r].content)
            /\ LET entry == ChunkEntry(queries[qIdx + 1], retrieved, retrieved_chunk_data)
               IN /\ lastEntry' = entry
                  /\ results' = Append(results, Brief(entry))
                  /\ reciprocalRanks' = Append(reciprocalRanks, entry.rr)
                  /\ correctCount' = correctCount + (IF entry.found THEN 1 ELSE 0)
                  /\ keywordMatchCount' =
                       keywordMatchCount + (IF entry.keyword_match THEN 1 ELSE 0)
            /\ qIdx' = qIdx + 1
            /\ UNCHANGED epc
  /\ UNCHANGED <<evaluator, table, idMap, queries, report>>
  /\ EvalFrame

\* The statistics and the report of _test_retrieval_quality.
ChunkEvalReport ==
  /\ epc = "looping" /\ evaluator = "chunk"
  /\ qIdx = Len(queries)
  /\ report' = [total_questions |-> Len(queries),
                correct_retrievals |-> correctCount,
                accuracy |-> Ratio(correctCount, Len(queries)),
                mrr |-> Ratio(SumSeq(reciprocalRanks), Len(reciprocalRanks)),
                keyword_matches |-> keywordMatchCount,
                keyword_accuracy |-> Ratio(keywordMatchCount, Len(queries))]
  /\ epc' = "reported"
  /\ UNCHANGED <<evaluator, table, idMap, queries, qIdx, results, lastEntry,
                 correctCount, keywordMatchCount, reciprocalRanks>>
  /\ EvalFrame

\* _run_benchmark after the indexing: the table holds one row per indexed
\* content, content_id_map its id; `lost` is a row in the map whose insert a
\* later rollback undid; valid_queries are the items whose content is in the
\* map.
EmbeddingEvalStart ==
  /\ epc = "idle"
  /\ \E n \in 1..EvalRows, lost \in SUBSET {1} :
       LET indexed == StoreOf(n, FALSE)
       IN /\ table' = {r \in indexed : r.id \notin lost}
          /\ idMap' = [c \in {r.content : r \in indexed} |->
                         (CHOOSE r \in indexed : r.content = c).id]
          /\ \E m \in 0..MaxQuestions :
               \E pick \in [1..m -> indexed] :
                 queries' = [k \in 1..m |-> EvalItem(pick[k])]
  /\ evaluator' = "embedding"
  /\ epc' = "looping"
  /\ UNCHANGED <<qIdx, results, lastEntry, correctCount, keywordMatchCount,
                 reciprocalRanks, report>>
  /\ EvalFrame

\* One iteration of `for i, item in enumerate(valid_queries)`: the try block,
\* or its except branch when embedding the question or the search raises.
EmbeddingEvalQuestion ==
  /\ epc = "looping" /\ evaluator = "embedding"
  /\ qIdx < Len(queries)
  /\ \/ UNCHANGED <<results, lastEntry, correctCount, keywordMatchCount, reciprocalRanks>>
     \/ \E retrieved \in TopLists(table) :
          LET entry == EmbeddingEntry(queries[qIdx + 1], retrieved)
          IN /\ lastEntry' = entry
             /\ results' = Append(results, Brief(entry))
             /\ reciprocalRanks' = Append(reciprocalRanks, entry.rr)
             /\ correctCount' = correctCount + (IF entry.found THEN 1 ELSE 0)
             /\ keywordMatchCount' =
                  keywordMatchCount + (IF entry.keyword_match THEN 1 ELSE 0)
  /\ qIdx' = qIdx + 1
  /\ UNCHANGED <<epc, evaluator, table, idMap, queries, report>>
  /\ EvalFrame

\* The statistics and the report of _run_benchmark.
EmbeddingEvalReport ==
  /\ epc = "looping" /\ evaluator = "embedding"
  /\ qIdx = Len(queries)
  /\ report' = [total_questions |-> Len(queries),
                correct_retrievals |-> correctCount,
                accuracy |-> Ratio(correctCount, Len(queries)),
                mrr |-> Ratio(SumSeq(reciprocalRanks), Len(reciprocalRanks)),
                keyword_matches |-> keywordMatchCount,
                keyword_accuracy |-> Ratio(keywordMatchCount, Len(queries))]
  /\ epc' = "reported"
  /\ UNCHANGED <<evaluator, table, idMap, queries, qIdx, results, lastEntry,
                 correctCount, keywordMatchCount, reciprocalRanks>>
  /\ EvalFrame

EvalNext ==
  \/ ChunkEvalStart
  \/ ChunkEvalQuestion
  \/ ChunkEvalReport
  \/ EmbeddingEvalStart
  \/ EmbeddingEvalQuestion
  \/ EmbeddingEvalReport

\* ======================================= the keyword check on drawn inputs
KwAlphabet == {"a", "A", "b"}
KwTexts == UNION {[1..n -> KwAlphabet] : n \in 1..MaxTextLen}
KwWords == {<<"a">>, <<"B">>, <<"a", "b">>}
KwLists == UNION {[1..n -> KwWords] : n \in 0..MaxKeywords}

\* The texts below the top one hold every keyword.
KwLower == <<"a", "b", "B">>
KwRetrievals ==
  {<<>>} \cup {<<t>> : t \in KwTexts} \cup {<<t, KwLower>> : t \in KwTexts}
         \cup {<<t, KwLower, KwLower>> : t \in KwTexts}

NoOutput == [none |-> TRUE]

KwInit ==
  /\ kwRetrieved = <<>>
  /\ kwKeywords = <<>>
  /\ kwOut = NoOutput

KwDrawn ==
  /\ kwRetrieved \in KwRetrievals
  /\ kwKeywords \in KwLists
  /\ kwOut = NoOutput

\* The keyword lines of _test_retrieval_quality: every retrieved content is
\* looked up and found, so retrieved_chunk_data has the retrieved texts.
ChunkKeywordCheck ==
  /\ kwOut = NoOutput
  /\ LET retrieved_chunk_data == [r \in DOMAIN kwRetrieved |-> [content |-> kwRetrieved[r]]]
         keywords_found == ChunkKeywordsFound(retrieved_chunk_data, kwKeywords)
     IN kwOut' = [by |-> "chunk", keywords_found |-> keywords_found,
                  keyword_match |-> ChunkKeywordMatch(keywords_found, kwKeywords)]
  /\ UNCHANGED <<kwRetrieved, kwKeywords>>
  /\ KwFrame

\* The keyword lines of _run_benchmark.
EmbeddingKeywordCheck ==
  /\ kwOut = NoOutput
  /\ LET top_text == IF kwRetrieved # <<>> THEN kwRetrieved[1] ELSE <<>>
         kw == CheckKeywordMatch(top_text, kwKeywords)
     IN kwOut' = [by |-> "embedding", keywords_found |-> kw.found,
                  keyword_match |-> kw.is_match]
  /\ UNCHANGED <<kwRetrieved, kwKeywords>>
  /\ KwFrame

KwNext ==
  \/ ChunkKeywordCheck
  \/ EmbeddingKeywordCheck

\* ================================================= EmbeddingBenchmark.run
EMBEDDING_DIM == 384
CommitEvery == 20
MODELS_TO_TEST == <<"tei", "ollama">>
Providers == {MODELS_TO_TEST[i] : i \in DOMAIN MODELS_TO_TEST}
Dims == {EMBEDDING_DIM, 2 * EMBEDDING_DIM}

\* unique_contents of the dataset
UniqueContents == [i \in 1..MaxContents |-> i]

\* The table the application left: created by the ORM with EMBEDDING_DIM,
\* filled by chunk_document under the deployment's provider.
ProductionSchema == [exists |-> TRUE, dim |-> EMBEDDING_DIM, by |-> "production", cell |-> 0]
ProductionRows == {[id |-> 1, content |-> 0, width |-> EMBEDDING_DIM, by |-> "production"]}
NoSchema == [exists |-> FALSE, dim |-> 0, by |-> "none", cell |-> 0]

NoMigration == [cell |-> 0, outcome |-> "none", schema |-> NoSchema, rows |-> {}]

\* _update_table_schema was entered in `cell` with the table as it is now.
Migration(cell, outcome) ==
  [cell |-> cell, outcome |-> outcome, schema |-> schema, rows |-> stored]

BenchInit ==
  /\ bpc = "dataset"
  /\ cfgIdx = 1
  /\ svc = "none"
  /\ dimOf \in [Providers -> Dims]
  /\ schema = ProductionSchema
  /\ stored = ProductionRows
  /\ pending = {}
  /\ serial = 2
  /\ content_id_map = <<>>
  /\ idxPos = 0
  /\ cellLog = [i \in DOMAIN MODELS_TO_TEST |-> "pending"]
  /\ lastMigration = NoMigration

\* Where the loop over MODELS_TO_TEST goes after configuration i.
NextCell(i) ==
  IF i < Len(MODELS_TO_TEST) THEN [pc |-> "reset", idx |-> i + 1]
  ELSE [pc |-> "done", idx |-> i]

\* (mutant) the exception of a configuration leaves run()
ExceptCell_Propagates(i) == [pc |-> "aborted", idx |-> i]

\* except Exception as e: logger.critical(...); the loop goes on
ExceptCell(i) == NextCell(i)

\* What every raise inside the try block of a configuration leads to.
CellRaises ==
  /\ cellLog' = [cellLog EXCEPT ![cfgIdx] = "failed"]
  /\ bpc' = ExceptCell(cfgIdx).pc
  /\ cfgIdx' = ExceptCell(cfgIdx).idx

\* (mutant) the table is kept when there is one
Recreated_NoDrop(old, rows, next, dim, by, cell) ==
  IF old.exists THEN [schema |-> old, rows |-> rows, serial |-> next]
  ELSE [schema |-> [exists |-> TRUE, dim |-> dim, by |-> by, cell |-> cell],
        rows |-> {}, serial |-> 1]

\* DROP TABLE IF EXISTS document_chunks CASCADE; commit; CREATE TABLE
\* document_chunks (id SERIAL ..., embedding vector(dim)); commit
Recreated(old, rows, next, dim, by, cell) ==
  [schema |-> [exists |-> TRUE, dim |-> dim, by |-> by, cell |-> cell],
   rows |-> {}, serial |-> 1]

\* The dataset loop of run(): a missing dataset is skipped, json.load is
\* outside every try block.
BenchDataset ==
  /\ bpc = "dataset"
  /\ \/ bpc' = "done"
     \/ bpc' = "reset"
     \/ bpc' = "aborted"
  /\ UNCHANGED <<cfgIdx, svc, dimOf, schema, stored, pending, serial, content_id_map,
                 idxPos, cellLog>>
  /\ UNCHANGED lastMigration
  /\ BenchFrame

\* _reset_embedding_singleton(config): the singleton is cleared, the new
\* provider connects or raises.
CellReset ==
  /\ bpc = "reset"
  /\ \/ /\ svc' = MODELS_TO_TEST[cfgIdx]
        /\ bpc' = "migrate"
        /\ UNCHANGED <<cfgIdx, cellLog>>
     \/ /\ svc' = "none"
        /\ CellRaises
  /\ UNCHANGED <<dimOf, schema, stored, pending, serial, content_id_map, idxPos>>
  /\ UNCHANGED lastMigration
  /\ BenchFrame

\* _update_table_schema(service)
CellMigrate ==
  /\ bpc = "migrate"
  /\ \/ \* embed_text("test") raises, or the DROP does and is rolled back
        /\ CellRaises
        /\ lastMigration' = Migration(cfgIdx, "failed")
        /\ UNCHANGED <<schema, stored, pending, serial>>
     \/ \* the DROP is committed, the CREATE raises and is rolled back
        /\ CellRaises
        /\ lastMigration' = Migration(cfgIdx, "failed")
        /\ schema' = NoSchema
        /\ stored' = {}
        /\ pending' = {}
        /\ UNCHANGED serial
     \/ LET r == Recreated(schema, stored, serial, dimOf[svc], svc, cfgIdx)
        IN /\ schema' = r.schema
           /\ stored' = r.rows
           /\ serial' = r.serial
           /\ pending' = {}
           /\ bpc' = "prepare"
           /\ lastMigration' = Migration(cfgIdx, "recreated")
           /\ UNCHANGED <<cfgIdx, cellLog>>
  /\ content_id_map' = <<>>
  /\ idxPos' = 0
  /\ UNCHANGED <<svc, dimOf>>
  /\ BenchFrame

\* _prepare_parent_doc()
CellPrepareDoc ==
  /\ bpc = "prepare"
  /\ \/ bpc' = "index" /\ UNCHANGED <<cfgIdx, cellLog>>
     \/ CellRaises
  /\ UNCHANGED <<svc, dimOf, schema, stored, pending, serial, content_id_map, idxPos>>
  /\ UNCHANGED lastMigration
  /\ BenchFrame

\* One iteration of the loop of _index_chunks: the vector is inserted when
\* the table takes its width; any exception rolls the transaction back.
CellIndexChunk ==
  /\ bpc = "index"
  /\ idxPos < Len(UniqueContents)
  /\ LET content == UniqueContents[idxPos + 1]
         row == [id |-> serial, content |-> content, width |-> dimOf[svc], by |-> svc]
     IN \/ /\ schema.exists /\ row.width = schema.dim
           /\ serial' = serial + 1
           /\ content_id_map' = [c \in DOMAIN content_id_map \cup {content} |->
                                   IF c = content THEN row.id ELSE content_id_map[c]]
           /\ IF (idxPos + 1) % CommitEvery = 0
              THEN stored' = stored \cup pending \cup {row} /\ pending' = {}
              ELSE pending' = pending \cup {row} /\ UNCHANGED stored
        \/ /\ pending' = {}
           /\ serial' \in {serial, serial + 1}
           /\ UNCHANGED <<stored, content_id_map>>
  /\ idxPos' = idxPos + 1
  /\ UNCHANGED <<bpc, cfgIdx, svc, dimOf, schema, cellLog>>
  /\ UNCHANGED lastMigration
  /\ BenchFrame

\* The commit after the loop of _index_chunks.
CellIndexDone ==
  /\ bpc = "index"
  /\ idxPos = Len(UniqueContents)
  /\ \/ /\ stored' = stored \cup pending
        /\ bpc' = "evaluate"
        /\ UNCHANGED <<cfgIdx, cellLog>>
     \/ /\ CellRaises
        /\ UNCHANGED stored
  /\ pending' = {}
  /\ UNCHANGED <<svc, dimOf, schema, serial, content_id_map, idxPos>>
  /\ UNCHANGED lastMigration
  /\ BenchFrame

\* The retrieval part of _run_benchmark: a report, or an exception outside
\* the per-question try block.
CellEvaluate ==
  /\ bpc = "evaluate"
  /\ \/ bpc' = "write" /\ UNCHANGED <<cfgIdx, cellLog>>
     \/ CellRaises
  /\ UNCHANGED <<svc, dimOf, schema, stored, pending, serial, content_id_map, idxPos>>
  /\ UNCHANGED lastMigration
  /\ BenchFrame

\* json.dump(report, f) and the end of the try block.
CellWrite ==
  /\ bpc = "write"
  /\ \/ /\ cellLog' = [cellLog EXCEPT ![cfgIdx] = "saved"]
        /\ bpc' = NextCell(cfgIdx).pc
        /\ cfgIdx' = NextCell(cfgIdx).idx
     \/ CellRaises
  /\ UNCHANGED <<svc, dimOf, schema, stored, pending, serial, content_id_map, idxPos>>
  /\ UNCHANGED lastMigration
  /\ BenchFrame

BenchNext ==
  \/ BenchDataset
  \/ CellReset
  \/ CellMigrate
  \/ CellPrepareDoc
  \/ CellIndexChunk
  \/ CellIndexDone
  \/ CellEvaluate
  \/ CellWrite

\* ============================================ ChunkingQualityExperiment.run
chunk_sizes == <<100, 150>>
ground_truth_samples == 1000

\* int(chunk_size * self.overlap_ratio), overlap_ratio = 0.1
OverlapOf(chunk_size) == chunk_size \div 10

\* f"ground_truths_{chunk_size}w.json", f"report_{chunk_size}w.json"
GtFileName(chunk_size) == <<"ground_truths", chunk_size>>
ReportFileName(chunk_size) == <<"report", chunk_size>>

NoStats == [mode |-> "none"]
NoReport == [none |-> TRUE]

\* (mutant) the file is not written
WithFile_Lost(files, name, content) == files

\* save_json(data, filename): the file of that name now holds the data
WithFile(files, name, content) ==
  [n \in DOMAIN files \cup {name} |-> IF n = name THEN content ELSE files[n]]

\* (mutant) the cached artifact is never used
HasCache_Never(i) == FALSE

\* gt_file_path.exists()
HasCache(i) == gtExists[i]

\* (mutant) a failed generation leaves an item too
CollectedItems_KeepsFailed(order, ok) ==
  [k \in DOMAIN order |-> GenerateSingle(order[k], k, "ok").item]

\* _generate_ground_truths(sampled_chunks): `order` is the order in which
\* the tasks complete, `ok` the chunks whose generation succeeds.
CollectedItems(order, ok) ==
  LET kept == SelectSeq(order, LAMBDA c : c \in ok)
  IN [k \in DOMAIN kept |-> GenerateSingle(kept[k], k, "ok").item]

\* sample_chunks(n): random.sample(all_chunks, min(n, len(all_chunks)))
Samples(rows, n) == {T \in SUBSET rows : Cardinality(T) = Min(n, Cardinality(rows))}

\* The fields of the evaluator's report the sweep is concerned with.
ReportOf(gts, chunk_size) == [chunk_size |-> chunk_size, total_questions |-> Len(gts)]

Step(i, name) == [cell |-> i, step |-> name]

SweepInit ==
  /\ wpc = "rechunk"
  /\ sizeIdx = 1
  /\ gtExists \in [DOMAIN chunk_sizes -> BOOLEAN]
  /\ ground_truths = <<>>
  /\ sizeLog = [i \in DOMAIN chunk_sizes |-> "pending"]
  /\ written = <<>>
  /\ trace = <<>>
  /\ genStats = [i \in DOMAIN chunk_sizes |-> NoStats]
  /\ cellReport = NoReport

\* Where `for chunk_size in self.chunk_sizes` goes after position i.
NextSize(i) ==
  IF i < Len(chunk_sizes) THEN [pc |-> "rechunk", idx |-> i + 1]
  ELSE [pc |-> "done", idx |-> i]

\* run() has no try block: an exception of a step leaves run().
SizeRaises ==
  /\ sizeLog' = [sizeLog EXCEPT ![sizeIdx] = "raised"]
  /\ wpc' = "aborted"
  /\ UNCHANGED sizeIdx

\* `if not ground_truths: continue`, else on to step 6
AfterGroundTruths(gts) ==
  IF gts = <<>>
  THEN /\ sizeLog' = [sizeLog EXCEPT ![sizeIdx] = "skipped"]
       /\ wpc' = NextSize(sizeIdx).pc
       /\ sizeIdx' = NextSize(sizeIdx).idx
  ELSE /\ wpc' = "evaluate"
       /\ UNCHANGED <<sizeIdx, sizeLog>>

\* Steps 1 and 2: delete_all_chunks(), chunk_all_documents(chunk_size, overlap)
SweepRechunk ==
  /\ wpc = "rechunk"
  /\ LET policy == <<chunk_sizes[sizeIdx], OverlapOf(chunk_sizes[sizeIdx])>>
     IN \/ \E fails \in FailurePatterns(policy) :
             LET r == Rebuilt(chunks, nextId, DocOrder, policy, fails)
             IN /\ chunks' = r.rows
                /\ nextId' = r.next
                /\ wpc' = "ground_truth"
                /\ trace' = trace \o <<Step(sizeIdx, "delete_all_chunks"),
                                       Step(sizeIdx, "chunk_all_documents")>>
                /\ UNCHANGED <<sizeIdx, sizeLog>>
        \/ \* the delete raises and is not committed
           /\ SizeRaises
           /\ trace' = Append(trace, Step(sizeIdx, "delete_all_chunks"))
           /\ UNCHANGED <<chunks, nextId>>
        \/ \* a query or a commit of the re-chunking raises
           /\ SizeRaises
           /\ trace' = trace \o <<Step(sizeIdx, "delete_all_chunks"),
                                  Step(sizeIdx, "chunk_all_documents")>>
           /\ chunks' = DeleteAllChunks(chunks)
           /\ UNCHANGED nextId
  /\ ground_truths' = <<>>
  /\ cellReport' = NoReport
  /\ UNCHANGED <<gtExists, written, genStats>>
  /\ SweepFrame

\* The ground-truth file exists: _load_and_remap_ground_truths. The file
\* holds items generated from chunks of an earlier store.
SweepLoadRemap ==
  /\ wpc = "ground_truth"
  /\ HasCache(sizeIdx)
  /\ \/ \* the file does not load: []
        /\ ground_truths' = <<>>
        /\ AfterGroundTruths(<<>>)
     \/ \E S \in SUBSET chunks : \E o \in Orderings(S) :
          \E found \in [DOMAIN o -> chunks] :
            /\ \A k \in DOMAIN o : found[k] \in MatchesOf(chunks, o[k].content)
            /\ LET remapped_data ==
                     [k \in DOMAIN o |->
                        Remap(GroundTruthItem([id |-> 0, content |-> o[k].content], k), found[k])]
               IN /\ ground_truths' = remapped_data
                  /\ AfterGroundTruths(remapped_data)
     \/ \* an item without chunk_content, or a failing query
        /\ SizeRaises
        /\ UNCHANGED ground_truths
  /\ trace' = Append(trace, Step(sizeIdx, "remap"))
  /\ genStats' = [genStats EXCEPT ![sizeIdx] =
                    [mode |-> "remap", cached |-> gtExists[sizeIdx], sampled |-> 0,
                     failed |-> 0, llm_calls |-> 0]]
  /\ UNCHANGED <<chunks, nextId, gtExists, written, cellReport>>
  /\ SweepFrame

\* No file: sample_chunks, _generate_ground_truths, save_json.
SweepGenerate ==
  /\ wpc = "ground_truth"
  /\ ~HasCache(sizeIdx)
  /\ \E sampled_chunks \in Samples(chunks, ground_truth_samples) :
       \E order \in Orderings(sampled_chunks), ok \in SUBSET sampled_chunks :
         LET generated == CollectedItems(order, ok)
         IN /\ ground_truths' = generated
            /\ genStats' = [genStats EXCEPT ![sizeIdx] =
                 [mode |-> "generate", cached |-> gtExists[sizeIdx],
                  sampled |-> Cardinality(sampled_chunks),
                  failed |-> Cardinality(sampled_chunks \ ok),
                  llm_calls |-> Cardinality(sampled_chunks)]]
            /\ \/ /\ written' = WithFile(written, GtFileName(chunk_sizes[sizeIdx]), generated)
                  /\ gtExists' = [gtExists EXCEPT ![sizeIdx] = TRUE]
                  /\ AfterGroundTruths(generated)
               \/ \* save_json raises, with or without a file left behind
                  /\ SizeRaises
                  /\ \E left \in {gtExists[sizeIdx], TRUE} :
                       gtExists' = [gtExists EXCEPT ![sizeIdx] = left]
                  /\ UNCHANGED written
  /\ trace' = trace \o <<Step(sizeIdx, "sample_chunks"),
                         Step(sizeIdx, "generate_ground_truths"),
                         Step(sizeIdx, "save_ground_truths")>>
  /\ UNCHANGED <<chunks, nextId, cellReport>>
  /\ SweepFrame

\* Step 6: _test_retrieval_quality returns a report, or a search raises.
SweepEvaluate ==
  /\ wpc = "evaluate"
  /\ \/ /\ wpc' = "save"
        /\ cellReport' = ReportOf(ground_truths, chunk_sizes[sizeIdx])
        /\ UNCHANGED <<sizeIdx, sizeLog>>
     \/ /\ SizeRaises
        /\ UNCHANGED cellReport
  /\ trace' = Append(trace, Step(sizeIdx, "test_retrieval_quality"))
  /\ UNCHANGED <<chunks, nextId, gtExists, ground_truths, written, genStats>>
  /\ SweepFrame

\* Step 7: save_json(report, ...)
SweepSave ==
  /\ wpc = "save"
  /\ \/ /\ written' = WithFile(written, ReportFileName(chunk_sizes[sizeIdx]), cellReport)
        /\ sizeLog' = [sizeLog EXCEPT ![sizeIdx] = "reported"]
        /\ wpc' = NextSize(sizeIdx).pc
        /\ sizeIdx' = NextSize(sizeIdx).idx
     \/ /\ SizeRaises
        /\ UNCHANGED written
  /\ trace' = Append(trace, Step(sizeIdx, "save_report"))
  /\ UNCHANGED <<chunks, nextId, gtExists, ground_truths, genStats, cellReport>>
  /\ SweepFrame

SweepNext ==
  \/ SweepRechunk
  \/ SweepLoadRemap
  \/ SweepGenerate
  \/ SweepEvaluate
  \/ SweepSave

\* ============================================ services/embedding_service
DefaultDimension == 384        \* self.dimension before the probe
NoService == [kind |-> "none"]

\* What the backend does with the construction-time probe: a vector of some
\* width, no connection, an error status, 404 for the model, or a body
\* without a vector.
ProbeWidths == {1, DefaultDimension, 2 * DefaultDimension}
ProbeAnswers ==
  {[kind |-> "vector", width |-> w] : w \in ProbeWidths}
    \cup {[kind |-> k, width |-> 0] :
            k \in {"unreachable", "error_status", "model_not_found", "bad_body"}}

\* (mutant) a provider that failed its probe is kept, with the default width
Construct_BestEffort(provider, answer) ==
  IF answer.kind = "vector"
  THEN [kind |-> "ok", provider |-> provider, dimension |-> answer.width, posts |-> 1]
  ELSE [kind |-> "ok", provider |-> provider, dimension |-> DefaultDimension, posts |-> 1]

\* TEIProvider(...) / OllamaProvider(...): __init__ and _validate_connection.
\* Every exception of the probe becomes a ConnectionError; Ollama's probe
\* is posted only when the GET before it got through.
Construct(provider, answer) ==
  IF answer.kind = "vector"
  THEN [kind |-> "ok", provider |-> provider, dimension |-> answer.width, posts |-> 1]
  ELSE [kind |-> "ConnectionError", provider |-> provider, dimension |-> 0,
        posts |-> IF provider = "ollama" /\ answer.kind = "unreachable" THEN 0 ELSE 1]

\* EmbeddingService._initialize_provider: Ollama for "ollama", else TEI.
ProviderFor(setting) == IF setting = "ollama" THEN "ollama" ELSE "tei"

\* get_embedding_service() on the singleton `current`.
ServiceAfter(current, built) ==
  IF current # NoService THEN current
  ELSE IF built.kind = "ok"
       THEN [kind |-> "service", provider |-> built.provider, dimension |-> built.dimension]
       ELSE NoService

ProvInit ==
  /\ EMBEDDING_PROVIDER \in {"tei", "ollama"}
  /\ embedding_service = NoService
  /\ initLog = <<>>

ProvQuiet ==
  /\ ProvInit
  /\ EMBEDDING_PROVIDER = "tei"

\* get_embedding_service(): the singleton if there is one, else a new
\* EmbeddingService, installed when its construction returns.
GetEmbeddingService ==
  /\ Len(initLog) < MaxInits
  /\ \E answer \in ProbeAnswers :
       LET built == Construct(ProviderFor(EMBEDDING_PROVIDER), answer)
           after == ServiceAfter(embedding_service, built)
       IN /\ embedding_service' = after
          /\ initLog' = Append(initLog,
               IF embedding_service # NoService
               THEN [call |-> "get", constructed |-> FALSE, after |-> after]
               ELSE [call |-> "get", constructed |-> TRUE, answer |-> answer,
                     built |-> built, after |-> after])
  /\ UNCHANGED EMBEDDING_PROVIDER
  /\ ProvFrame

\* EmbeddingBenchmark._reset_embedding_singleton(config): the globals are
\* patched, the singleton is cleared, get_embedding_service() is called and
\* its exception is raised again.
ResetEmbeddingSingleton ==
  /\ Len(initLog) < MaxInits
  /\ \E provider \in Providers, answer \in ProbeAnswers :
       LET built == Construct(ProviderFor(provider), answer)
           after == ServiceAfter(NoService, built)
       IN /\ EMBEDDING_PROVIDER' = provider
          /\ embedding_service' = after
          /\ initLog' = Append(initLog,
               [call |-> "reset", constructed |-> TRUE, answer |-> answer,
                built |-> built, after |-> after])
  /\ ProvFrame

ProvNext ==
  \/ GetEmbeddingService
  \/ ResetEmbeddingSingleton

\* ============================================= the getters under threads
\* get_embedding_service and get_rag_service, statement by statement, called
\* by several threads.  A read and a write of a module global are atomic.
Threads == 1..MaxThreads
NoThread == 0
None == 0
Getters == {"embedding", "rag"}

Frame(g, pc) == [g |-> g, pc |-> pc, val |-> None]
Top(t) == stack[t][Len(stack[t])]
SetTop(t, f) == [stack EXCEPT ![t] = [@ EXCEPT ![Len(@)] = f]]
NextInstance == 1 + Cardinality(instances)

\* (mutant) the lock is not taken
CanAcquire_NoLock(g) == TRUE

\* with _embedding_service_lock / with _rag_service_lock: the lock is free
CanAcquire(g) == lockOf[g] = NoThread

\* The locks after thread t left every with-block it was in.
Unwound(t) == [g \in Getters |-> IF lockOf[g] = t THEN NoThread ELSE lockOf[g]]

ThreadInit ==
  /\ singleton = [g \in Getters |-> None]
  /\ lockOf = [g \in Getters |-> NoThread]
  /\ stack = [t \in Threads |-> <<>>]
  /\ status = [t \in Threads |-> "idle"]
  /\ got = [t \in Threads |-> None]
  /\ span = [t \in Threads |-> <<0, 0>>]
  /\ resets = 0
  /\ instances = {}

\* A thread calls one of the getters.
CallGetter(t, g) ==
  /\ status[t] = "idle"
  /\ status' = [status EXCEPT ![t] = "calling"]
  /\ stack' = [stack EXCEPT ![t] = <<Frame(g, "check")>>]
  /\ span' = [span EXCEPT ![t] = <<resets, resets>>]
  /\ UNCHANGED <<singleton, lockOf, got, resets, instances>>
  /\ ThreadFrame

\* _reset_embedding_singleton: `_embedding_service = None`, written without
\* the lock, then get_embedding_service().
CallReset(t) ==
  /\ status[t] = "idle"
  /\ resets < MaxResets
  /\ singleton' = [singleton EXCEPT !["embedding"] = None]
  /\ resets' = resets + 1
  /\ status' = [status EXCEPT ![t] = "calling"]
  /\ stack' = [stack EXCEPT ![t] = <<Frame("embedding", "check")>>]
  /\ span' = [span EXCEPT ![t] = <<resets + 1, resets + 1>>]
  /\ UNCHANGED <<lockOf, got, instances>>
  /\ ThreadFrame

\* if _service is None:  (outside the lock)
StepCheck(t) ==
  /\ status[t] = "calling" /\ Top(t).pc = "check"
  /\ stack' = SetTop(t, [Top(t) EXCEPT !.pc =
                 IF singleton[Top(t).g] = None THEN "acquire" ELSE "return"])
  /\ UNCHANGED <<singleton, lockOf, status, got, span, resets, instances>>
  /\ ThreadFrame

\* with _service_lock:
StepAcquire(t) ==
  /\ status[t] = "calling" /\ Top(t).pc = "acquire"
  /\ CanAcquire(Top(t).g)
  /\ lockOf' = [lockOf EXCEPT ![Top(t).g] = t]
  /\ stack' = SetTop(t, [Top(t) EXCEPT !.pc = "recheck"])
  /\ UNCHANGED <<singleton, status, got, span, resets, instances>>
  /\ ThreadFrame

\* if _service is None:  (inside the lock); when it is not, the with-block
\* is left.
StepRecheck(t) ==
  /\ status[t] = "calling" /\ Top(t).pc = "recheck"
  /\ IF singleton[Top(t).g] = None
     THEN /\ stack' = SetTop(t, [Top(t) EXCEPT !.pc = "construct"])
          /\ UNCHANGED lockOf
     ELSE /\ stack' = SetTop(t, [Top(t) EXCEPT !.pc = "return"])
          /\ lockOf' = [lockOf EXCEPT ![Top(t).g] = NoThread]
  /\ UNCHANGED <<singleton, status, got, span, resets, instances>>
  /\ ThreadFrame

\* RAGService.__init__ begins with get_embedding_service().
StepNest(t) ==
  /\ status[t] = "calling" /\ Top(t).pc = "construct" /\ Top(t).g = "rag"
  /\ stack' = [stack EXCEPT ![t] =
                 Append(SetTop(t, [Top(t) EXCEPT !.pc = "configure"])[t],
                        Frame("embedding", "check"))]
  /\ UNCHANGED <<singleton, lockOf, status, got, span, resets, instances>>
  /\ ThreadFrame

\* EmbeddingService() / the rest of RAGService(): a new instance, or an
\* exception, which leaves every with-block of the thread and its call.
StepConstruct(t) ==
  /\ status[t] = "calling"
  /\ \/ Top(t).pc = "construct" /\ Top(t).g = "embedding"
     \/ Top(t).pc = "configure"
  /\ \/ /\ stack' = SetTop(t, [Top(t) EXCEPT !.pc = "assign", !.val = NextInstance])
        /\ instances' = instances \cup
             {[g |-> Top(t).g, id |-> NextInstance, stored |-> FALSE, resets |-> resets]}
        /\ UNCHANGED <<lockOf, status, span>>
     \/ /\ stack' = [stack EXCEPT ![t] = <<>>]
        /\ lockOf' = Unwound(t)
        /\ status' = [status EXCEPT ![t] = "raised"]
        /\ span' = [span EXCEPT ![t][2] = resets]
        /\ UNCHANGED instances
  /\ UNCHANGED <<singleton, got, resets>>
  /\ ThreadFrame

\* _service = <the instance>; the with-block is left.
StepAssign(t) ==
  /\ status[t] = "calling" /\ Top(t).pc = "assign"
  /\ singleton' = [singleton EXCEPT ![Top(t).g] = Top(t).val]
  /\ instances' = {IF i.id = Top(t).val THEN [i EXCEPT !.stored = TRUE, !.resets = resets]
                   ELSE i : i \in instances}
  /\ lockOf' = [lockOf EXCEPT ![Top(t).g] = NoThread]
  /\ stack' = SetTop(t, [Top(t) EXCEPT !.pc = "return"])
  /\ UNCHANGED <<status, got, span, resets>>
  /\ ThreadFrame

\* return _service: the global is read once more; the value goes to the
\* caller, which is the thread's own code or RAGService.__init__.
StepReturn(t) ==
  /\ status[t] = "calling" /\ Top(t).pc = "return"
  /\ IF Len(stack[t]) = 1
     THEN /\ stack' = [stack EXCEPT ![t] = <<>>]
          /\ status' = [status EXCEPT ![t] = "done"]
          /\ got' = [got EXCEPT ![t] = [g |-> Top(t).g, id |-> singleton[Top(t).g]]]
          /\ span' = [span EXCEPT ![t][2] = resets]
     ELSE /\ stack' = [stack EXCEPT ![t] = SubSeq(@, 1, Len(@) - 1)]
          /\ UNCHANGED <<status, got, span>>
  /\ UNCHANGED <<singleton, lockOf, resets, instances>>
  /\ ThreadFrame

ThreadNext ==
  \/ \E t \in Threads, g \in Getters : CallGetter(t, g)
  \/ \E t \in Threads : CallReset(t)
  \/ \E t \in Threads : StepCheck(t)
  \/ \E t \in Threads : StepAcquire(t)
  \/ \E t \in Threads : StepRecheck(t)
  \/ \E t \in Threads : StepNest(t)
  \/ \E t \in Threads : StepConstruct(t)
  \/ \E t \in Threads : StepAssign(t)
  \/ \E t \in Threads : StepReturn(t)

\* ========================================== LLMService.generate_response
\* A provider is absent (its constructor raised in LLMService.__init__) or
\* present; the stream of a present provider has `tokens` tokens and either
\* ends after them or raises after the first `failAfter` of them.
Absent == [present |-> FALSE]
Whole == MaxTokens + 1   \* failAfter of a stream that does not raise
ProviderRuns ==
  {Absent} \cup
  {[present |-> TRUE, tokens |-> nf[1], failAfter |-> nf[2]] :
     nf \in {x \in (0..MaxTokens) \X (0..Whole) : x[2] <= x[1] \/ x[2] = Whole}}

Token(from, k) == [from |-> from, k |-> k]
ErrorMessage == Token("error", 0)

\* The tokens a provider's generate_stream yields before it ends or raises.
Yielded(run, from) ==
  [k \in 1..(IF run.failAfter = Whole THEN run.tokens ELSE run.failAfter) |-> Token(from, k)]

\* Where generate_response goes when the primary is over without a return.
AfterPrimary == IF fallback.present THEN "fallback" ELSE "unavailable"

LlmInit ==
  /\ primary \in ProviderRuns
  /\ fallback \in ProviderRuns
  /\ lpc = "called"
  /\ out = <<>>

LlmQuiet ==
  /\ primary = Absent
  /\ fallback = Absent
  /\ lpc = "called"
  /\ out = <<>>

\* if self.primary:
LlmEnter ==
  /\ lpc = "called"
  /\ lpc' = IF primary.present THEN "primary" ELSE AfterPrimary
  /\ UNCHANGED <<primary, fallback, out>>
  /\ LlmFrame

\* yield from self.primary.generate_stream(prompt): the next token is passed
\* on to the consumer as it arrives.
LlmPrimaryToken ==
  /\ lpc = "primary"
  /\ LET mine == SelectSeq(out, LAMBDA t : t.from = "primary")
     IN /\ Len(mine) < Len(Yielded(primary, "primary"))
        /\ out' = Append(out, Yielded(primary, "primary")[Len(mine) + 1])
  /\ UNCHANGED <<primary, fallback, lpc>>
  /\ LlmFrame

\* The primary's stream is over: `return`, or the except block.
LlmPrimaryOver ==
  /\ lpc = "primary"
  /\ Len(SelectSeq(out, LAMBDA t : t.from = "primary")) = Len(Yielded(primary, "primary"))
  /\ lpc' = IF primary.failAfter = Whole THEN "done" ELSE AfterPrimary
  /\ UNCHANGED <<primary, fallback, out>>
  /\ LlmFrame

\* yield from self.fallback.generate_stream(prompt)
LlmFallbackToken ==
  /\ lpc = "fallback"
  /\ LET mine == SelectSeq(out, LAMBDA t : t.from = "fallback")
     IN /\ Len(mine) < Len(Yielded(fallback, "fallback"))
        /\ out' = Append(out, Yielded(fallback, "fallback")[Len(mine) + 1])
  /\ UNCHANGED <<primary, fallback, lpc>>
  /\ LlmFrame

\* The fallback's stream is over: `return`, or the except block.
LlmFallbackOver ==
  /\ lpc = "fallback"
  /\ Len(SelectSeq(out, LAMBDA t : t.from = "fallback")) = Len(Yielded(fallback, "fallback"))
  /\ lpc' = IF fallback.failAfter = Whole THEN "done" ELSE "unavailable"
  /\ UNCHANGED <<primary, fallback, out>>
  /\ LlmFrame

\* yield error_msg
LlmUnavailable ==
  /\ lpc = "unavailable"
  /\ out' = Append(out, ErrorMessage)
  /\ lpc' = "done"
  /\ UNCHANGED <<primary, fallback>>
  /\ LlmFrame

LlmNext ==
  \/ LlmEnter
  \/ LlmPrimaryToken
  \/ LlmPrimaryOver
  \/ LlmFallbackToken
  \/ LlmFallbackOver
  \/ LlmUnavailable

\* The sweeps at rest, for the specifications that do not run them.
BenchQuiet ==
  /\ BenchInit
  /\ dimOf = [p \in Providers |-> EMBEDDING_DIM]

SweepQuiet ==
  /\ SweepInit
  /\ gtExists = [i \in DOMAIN chunk_sizes |-> FALSE]

\* ======================================================== specifications
\* chunk_document called through the service with any arguments, and called
\* once more.
InitChunk == StoreInit(Texts) /\ CallInit /\ RemapInit /\ GenInit /\ EvalInit
             /\ KwInit /\ BenchQuiet /\ SweepQuiet /\ ProvQuiet /\ ThreadInit /\ LlmQuiet
SpecChunk == InitChunk /\ [][ChunkNext]_vars

\* Two runs of a chunk-size cell: generate and save, then rebuild and remap.
InitRemap == StoreInit(LongTexts) /\ CallInit /\ RemapInit /\ GenInit /\ EvalInit
             /\ KwInit /\ BenchQuiet /\ SweepQuiet /\ ProvQuiet /\ ThreadInit /\ LlmQuiet
SpecRemap == InitRemap /\ [][RemapNext]_vars

\* One call of _generate_ground_truths: the pool's workers and the collector.
InitGen == StoreInit({Text(1, 1)}) /\ CallInit /\ RemapInit /\ GenInit /\ EvalInit
             /\ KwInit /\ BenchQuiet /\ SweepQuiet /\ ProvQuiet /\ ThreadInit /\ LlmQuiet
SpecGen == InitGen /\ [][GenNext]_vars

\* The same with the workers and the collecting loop going on: a worker
\* thread that has a task runs it, an LLM call comes back (the service
\* returns or raises), as_completed yields what is done.
SpecGenFair == InitGen /\ [][GenNext]_vars /\ WF_vars(GenNext)

\* One run of either evaluator over a store and its ground truth.
InitEval == StoreInit({Text(1, 1)}) /\ CallInit /\ RemapInit /\ GenInit /\ EvalInit
             /\ KwInit /\ BenchQuiet /\ SweepQuiet /\ ProvQuiet /\ ThreadInit /\ LlmQuiet
SpecEval == InitEval /\ [][EvalNext]_vars

\* The keyword check of both evaluators on every drawn input.
InitKeyword == StoreInit({Text(1, 1)}) /\ CallInit /\ RemapInit /\ GenInit /\ EvalInit
               /\ KwDrawn /\ BenchQuiet /\ SweepQuiet /\ ProvQuiet /\ ThreadInit /\ LlmQuiet
SpecKeyword == InitKeyword /\ [][KwNext]_vars

\* The embedding-model sweep; a step that can be taken is taken.
InitBench == StoreInit({Text(1, 1)}) /\ CallInit /\ RemapInit /\ GenInit /\ EvalInit
             /\ KwInit /\ BenchInit /\ SweepQuiet /\ ProvQuiet /\ ThreadInit /\ LlmQuiet
SpecBench == InitBench /\ [][BenchNext]_vars /\ WF_vars(BenchNext)

\* The chunk-size sweep.
InitSweep == StoreInit(LongTexts) /\ CallInit /\ RemapInit /\ GenInit /\ EvalInit
             /\ KwInit /\ BenchQuiet /\ SweepInit /\ ProvQuiet /\ ThreadInit /\ LlmQuiet
SpecSweep == InitSweep /\ [][SweepNext]_vars

\* The calls that ask for the embedding service.
InitProv == StoreInit({Text(1, 1)}) /\ CallInit /\ RemapInit /\ GenInit /\ EvalInit
            /\ KwInit /\ BenchQuiet /\ SweepQuiet /\ ProvInit /\ ThreadInit /\ LlmQuiet
SpecProv == InitProv /\ [][ProvNext]_vars

\* chunk_document called with sizes and overlaps around the cap, on documents
\* longer than the cap.
InitCap == StoreInit(CapTexts) /\ CallInit /\ RemapInit /\ GenInit /\ EvalInit
           /\ KwInit /\ BenchQuiet /\ SweepQuiet /\ ProvQuiet /\ ThreadInit /\ LlmQuiet
SpecCap == InitCap /\ [][CapNext]_vars

\* Threads calling the getters of the two singletons, and the benchmark's
\* reset of the embedding singleton.
InitThreads == StoreInit({Text(1, 1)}) /\ CallInit /\ RemapInit /\ GenInit /\ EvalInit
               /\ KwInit /\ BenchQuiet /\ SweepQuiet /\ ProvQuiet /\ ThreadInit /\ LlmQuiet
SpecThreads == InitThreads /\ [][ThreadNext]_vars

\* One call of generate_response, for every way the two providers can go.
InitLlm == StoreInit({Text(1, 1)}) /\ CallInit /\ RemapInit /\ GenInit /\ EvalInit
           /\ KwInit /\ BenchQuiet /\ SweepQuiet /\ ProvQuiet /\ ThreadInit /\ LlmInit
SpecLlm == InitLlm /\ [][LlmNext]_vars

\* ---------------------------------------------------- claims on the chunker
\* The (chunk_index, content) pairs stored for document d.
IdxContent(rows, d) == {<<c.chunk_index, c.content>> : c \in {r \in rows : r.document_id = d}}

\* The last call is in the domain of C1: chunk_size <= 150, 0 <= overlap < chunk_size.
InPolicy(call) ==
  /\ call.kind = "ok"
  /\ call.chunk_size <= ChunkCap
  /\ 0 <= call.overlap /\ call.overlap < call.chunk_size

\* words[i*step : i*step + chunk_size] for every i >= 0 with i*step < len(words)
SlidingWindows(words, chunk_size, overlap) ==
  LET step == chunk_size - overlap
      n    == Len(words)
      cnt  == IF n = 0 THEN 0 ELSE ((n - 1) \div step) + 1
  IN [i \in 1..cnt |-> SubSeq(words, (i - 1) * step + 1, Min((i - 1) * step + chunk_size, n))]

\* The first half of C1: the windows are exactly the sliding windows.
WindowsExact ==
  InPolicy(lastCall) =>
    lastCall.windows = SlidingWindows(docs[lastCall.doc], lastCall.chunk_size, lastCall.overlap)

\* C1: for chunk_size <= 150 and 0 <= overlap < chunk_size the windows of
\* chunk_document are, in order, words[i*step : i*step + chunk_size] for every
\* i with i*step < len(words), and only the last window is shorter than
\* chunk_size.
C1_WindowsOnlyLastShort ==
  InPolicy(lastCall) =>
    /\ lastCall.windows = SlidingWindows(docs[lastCall.doc], lastCall.chunk_size, lastCall.overlap)
    /\ \A i \in 1..(Len(lastCall.windows) - 1) :
         Len(lastCall.windows[i]) = lastCall.chunk_size

Contents(rows) == {c.content : c \in rows}

\* The loaded items whose content is in the store, in order.
Resolvable == SelectSeq(data, LAMBDA it : it.chunk_content \in Contents(chunks))

\* C3: _load_and_remap_ground_truths returns exactly the persisted items
\* whose chunk_content is the content of a chunk of the current store, in
\* order, each with chunk_id rewritten to the id of a current chunk with
\* exactly that content; every other item is dropped and counted, so that
\* remapped + unresolved = persisted.
C3_RemapByContent ==
  rpc = "done" =>
    /\ data = gtFile
    /\ Len(remapped) = Len(Resolvable)
    /\ \A k \in 1..Len(remapped) :
         /\ remapped[k].chunk_content = Resolvable[k].chunk_content
         /\ remapped[k].q = Resolvable[k].q
         /\ \E c \in chunks : c.id = remapped[k].chunk_id
                              /\ c.content = remapped[k].chunk_content
    /\ notFound = Cardinality({k \in 1..Len(gtFile) :
                                 gtFile[k].chunk_content \notin Contents(chunks)})
    /\ Len(remapped) + notFound = Len(gtFile)

\* The store was rebuilt under another policy; one item resolved to a new id
\* and one did not resolve.
C3_Witness ==
  /\ rpc = "done"
  /\ gtPolicy # storePolicy
  /\ Len(remapped) = 1 /\ notFound = 1
  /\ \E k \in 1..Len(gtFile) : gtFile[k].chunk_content = remapped[1].chunk_content
                               /\ gtFile[k].chunk_id # remapped[1].chunk_id

\* -------------------------------------------------- claims on the generator
\* The chunks whose LLM call succeeds and parses.
Succeeding == {i \in DOMAIN sampled : llmOutcome[i] = "ok"}

\* C4: whatever the interleaving of the workers, _generate_ground_truths
\* makes one LLM attempt per chunk (never a second), is never failed by an
\* individual failure, and returns exactly one item for each chunk whose call
\* succeeded and parsed and none for the others, with successes + failures =
\* chunks sampled: the items and the failure count are fixed by the outcomes
\* of the calls, not by the completion order.
C4_OneItemPerSuccess ==
  /\ gpc # "raised"
  /\ \A i \in DOMAIN attempts : attempts[i] <= 1
  /\ gpc = "returned" =>
       /\ \A i \in DOMAIN attempts : attempts[i] = 1
       /\ {groundTruths[k] : k \in DOMAIN groundTruths} =
            {GroundTruthItem(sampled[i], i) : i \in Succeeding}
       /\ Len(groundTruths) = Cardinality(Succeeding)
       /\ failed = Len(sampled) - Cardinality(Succeeding)
       /\ Len(groundTruths) + failed = Len(sampled)

\* A run with a failed call and two successes collected against the
\* submission order.
C4_Witness ==
  /\ gpc = "returned"
  /\ failed >= 1
  /\ Len(groundTruths) >= 2
  /\ groundTruths[1].chunk_id > groundTruths[2].chunk_id

\* --------------------------------------------------------------------- C5
Evaluated == lastEntry # NoEntry

\* The recorded found, rank and reciprocal rank agree with the recorded
\* retrieved_chunk_ids of the same entry.
RankingOverRecordedIds ==
  Evaluated =>
    /\ lastEntry.found <=> Occurs(lastEntry.retrieved_chunk_ids, lastEntry.expected_chunk_id)
    /\ lastEntry.found =>
         /\ lastEntry.rank \in 1..TopK
         /\ lastEntry.retrieved_chunk_ids[lastEntry.rank] = lastEntry.expected_chunk_id
         /\ lastEntry.rr * lastEntry.rank = RRScale
    /\ ~lastEntry.found => lastEntry.rank = 0 /\ lastEntry.rr = 0

\* C5: for every evaluated question, found is true exactly when the expected
\* chunk's identifier is among the identifiers of the (at most K = 3) chunks
\* the search retrieved; rank is the 1-indexed position of that identifier in
\* the retrieved list when found, none otherwise; the reciprocal rank is
\* 1/rank when found, 0 otherwise.
C5_FoundRankReciprocal ==
  Evaluated =>
    /\ Len(lastEntry.searched) <= TopK
    /\ lastEntry.found <=> Occurs(lastEntry.searched, lastEntry.expected_chunk_id)
    /\ lastEntry.found =>
         /\ lastEntry.rank \in DOMAIN lastEntry.searched
         /\ lastEntry.searched[lastEntry.rank] = lastEntry.expected_chunk_id
         /\ lastEntry.rr * lastEntry.rank = RRScale
    /\ ~lastEntry.found => lastEntry.rank = 0 /\ lastEntry.rr = 0

\* --------------------------------------------------------------------- C6
\* a fraction <<n, d>> equals num / den
FractionIs(f, num, den) == f[1] * den = num * f[2]

RecordedRanksSum == SumSeq([k \in DOMAIN results |-> ReciprocalRank(results[k].rank)])

\* C6: in every report accuracy = correct_retrievals / evaluated questions,
\* mrr = the mean reciprocal rank over the same evaluated questions,
\* keyword_accuracy = keyword_matches / the same total; so rank 1 for every
\* evaluated question gives accuracy = 1 and mrr = 1, and absence from the
\* top 3 for every evaluated question gives accuracy = 0 and mrr = 0.
C6_AggregatesOverEvaluated ==
  (epc = "reported" /\ Len(results) > 0) =>
    /\ FractionIs(report.accuracy, report.correct_retrievals, Len(results))
    /\ FractionIs(report.mrr, RecordedRanksSum, Len(results))
    /\ FractionIs(report.keyword_accuracy, report.keyword_matches, Len(results))
    /\ (\A k \in DOMAIN results : results[k].rank = 1) =>
         /\ FractionIs(report.accuracy, 1, 1)
         /\ FractionIs(report.mrr, RRScale, 1)
    /\ (\A k \in DOMAIN results : ~results[k].found) =>
         /\ FractionIs(report.accuracy, 0, 1)
         /\ FractionIs(report.mrr, 0, 1)

\* The same statement for the reports of _test_retrieval_quality alone.
ChunkAggregatesOverEvaluated == evaluator = "chunk" => C6_AggregatesOverEvaluated

\* --------------------------------------------------------------------- C7
\* The positions of the keywords that occur in the text, letter case aside.
HitsIn(text, keywords) ==
  {k \in DOMAIN keywords :
     \E off \in 0..(Len(text) - Len(keywords[k])) :
       \A j \in 1..Len(keywords[k]) : LowerChar(text[off + j]) = LowerChar(keywords[k][j])}

\* C7: keyword_match is true exactly when at least half of the item's
\* keywords occur, as case-insensitive substrings, in the text of the top-1
\* retrieved chunk; it is false without keywords or without a retrieved
\* chunk, and the chunks at ranks 2 and 3 have no part in it.
C7_KeywordMatchTopOne ==
  kwOut # NoOutput =>
    (kwOut.keyword_match <=>
       /\ kwKeywords # <<>>
       /\ kwRetrieved # <<>>
       /\ 2 * Cardinality(HitsIn(kwRetrieved[1], kwKeywords)) >= Len(kwKeywords))

\* Two of four keywords are in the top chunk, all four in the second one.
C7_Witness ==
  /\ kwOut # NoOutput
  /\ kwOut.by = "chunk"
  /\ kwOut.keyword_match
  /\ Len(kwKeywords) = 4
  /\ Len(kwRetrieved) >= 2
  /\ Cardinality(HitsIn(kwRetrieved[1], kwKeywords)) = 2
  /\ Cardinality(HitsIn(kwRetrieved[2], kwKeywords)) = 4

\* --------------------------------------------------------------------- C8
AllRows == stored \cup pending

\* C8: in every cell the table is dropped, recreated with the width measured
\* from the cell's provider and committed before a chunk is inserted under
\* that provider; so all stored vectors have the declared width, and the
\* table never holds vectors of two providers.
C8_OneWidthOneProvider ==
  /\ schema.exists => \A r \in AllRows : r.width = schema.dim
  /\ ~schema.exists => AllRows = {}
  /\ \A r1, r2 \in AllRows : r1.by = r2.by /\ r1.width = r2.width
  /\ bpc \in {"prepare", "index", "evaluate", "write"} =>
       /\ schema.exists
       /\ schema.cell = cfgIdx
       /\ schema.by = svc
       /\ schema.dim = dimOf[svc]
       /\ \A r \in AllRows : r.by = svc

\* The second cell has indexed its chunks, under a provider as wide as the
\* first one, whose cell had indexed and reported.
C8_Witness ==
  /\ cfgIdx = 2
  /\ bpc = "evaluate"
  /\ cellLog[1] = "saved"
  /\ stored # {}
  /\ dimOf[MODELS_TO_TEST[1]] = dimOf[MODELS_TO_TEST[2]]

\* --------------------------------------------------------------------- C9
\* C9: an exception raised while a (dataset, model) configuration is being
\* processed never ends the sweep: once the dataset is loaded, the sweep
\* reaches its end with every configuration of the matrix processed.
C9_SweepSurvivesCellFailure ==
  /\ []((\E i \in DOMAIN cellLog : cellLog[i] = "failed") => bpc # "aborted")
  /\ (bpc = "reset") ~> (bpc = "done" /\ \A i \in DOMAIN cellLog : cellLog[i] # "pending")

\* The first configuration failed, the second was processed and saved.
C9_Witness ==
  /\ bpc = "done"
  /\ cellLog[1] = "failed"
  /\ cellLog[2] = "saved"

\* -------------------------------------------------------------------- C10
\* C10: an exception raised while one chunk_size is being processed is
\* caught, and the sweep goes on to the next chunk_size: it is never ended
\* by it.
C10_SizeFailureCaught ==
  \A i \in DOMAIN sizeLog :
    sizeLog[i] = "raised" => (wpc # "aborted" /\ (i < Len(chunk_sizes) => sizeIdx > i))

\* -------------------------------------------------------------------- C11
\* C11: a question whose retrieval fails does not end the evaluation: the
\* other questions are evaluated, a report is produced, and the failed
\* question is left out of total_questions and of the numerator and the
\* denominator of accuracy, mrr and keyword_accuracy.
C11_FailedQuestionExcluded ==
  /\ epc # "aborted"
  /\ epc = "reported" =>
       /\ report.total_questions = Len(results)
       /\ Len(results) > 0 =>
            /\ FractionIs(report.accuracy,
                          Cardinality({k \in DOMAIN results : results[k].found}), Len(results))
            /\ FractionIs(report.mrr, RecordedRanksSum, Len(results))
            /\ FractionIs(report.keyword_accuracy,
                          Cardinality({k \in DOMAIN results : results[k].keyword_match}),
                          Len(results))

\* -------------------------------------------------------------------- C12
\* C12: when the embedding of some windows fails, chunk_document skips those
\* windows and only those, stores one chunk for each other window, and
\* returns the number of chunks stored: windows computed minus windows failed.
C12_FailedWindowsSkipped ==
  lastCall.kind = "ok" =>
    LET mine == {c \in chunks : c.document_id = lastCall.doc}
        kept == (1..Len(lastCall.windows)) \ lastCall.failed
    IN /\ ret.kind = "ok"
       /\ ret.count = Len(lastCall.windows) - Cardinality(lastCall.failed)
       /\ Cardinality(mine) = ret.count
       /\ \A i \in kept : \E c \in mine : c.chunk_index = i - 1 /\ c.content = lastCall.windows[i]
       /\ \A c \in mine : c.chunk_index + 1 \in kept

\* A window failed and a later window of the same call was stored.
C12_Witness ==
  /\ lastCall.kind = "ok"
  /\ ret.count >= 1
  /\ \E i \in lastCall.failed :
       \E c \in chunks : c.document_id = lastCall.doc /\ c.chunk_index + 1 > i

\* -------------------------------------------------------------------- C13
\* C13: chunk_document on a document id that does not exist fails with the
\* not-found error, the endpoint answers 404, and the call neither deletes
\* nor adds a chunk.
C13_NotFoundIs404 ==
  lastCall.kind = "not_found" =>
    /\ lastCall.doc \notin DOMAIN docs
    /\ ret.kind = "not_found"
    /\ ret.http = 404
    /\ chunks = lastCall.before
    /\ nextId = lastCall.first

\* The call on the missing document came when the store held chunks.
C13_Witness ==
  /\ lastCall.kind = "not_found"
  /\ ret.http = 404
  /\ chunks # {}

\* -------------------------------------------------------------------- C14
\* C14: the construction of a provider, TEI or Ollama, either fails with a
\* ConnectionError (no connection, error status, model not found, no vector
\* in the body) and leaves no service installed as the singleton, or gives a
\* provider whose dimension is the length of the vector the backend returned
\* for the probe, not the default 384; the probe is made once.
C14_InitAllOrNothing ==
  \A k \in DOMAIN initLog :
    initLog[k].constructed =>
      LET e == initLog[k]
      IN /\ e.built.posts <= 1
         /\ e.answer.kind # "vector" =>
              /\ e.built.kind = "ConnectionError"
              /\ e.after = NoService
         /\ e.answer.kind = "vector" =>
              /\ e.built.kind = "ok"
              /\ e.after.kind = "service"
              /\ e.after.provider = e.built.provider
              /\ e.after.dimension = e.answer.width

\* A reset whose probe failed left no singleton, after a construction that
\* had measured a width other than the default.
C14_Witness ==
  /\ embedding_service = NoService
  /\ \E j, k \in DOMAIN initLog :
       /\ j < k
       /\ initLog[j].constructed /\ initLog[j].after.kind = "service"
       /\ initLog[j].after.dimension # DefaultDimension
       /\ initLog[k].call = "reset" /\ initLog[k].built.kind = "ConnectionError"

\* -------------------------------------------------------------------- C15
\* The remapping of an artifact against a store rebuilt with the chunk_size
\* and overlap the artifact was generated under left no item unresolved.
AllResolved == notFound = 0 /\ Len(remapped) = Len(gtFile)

CellSteps(i) ==
  LET mine == SelectSeq(trace, LAMBDA e : e.cell = i)
  IN [k \in DOMAIN mine |-> mine[k].step]

IsPrefix(s, t) == Len(s) <= Len(t) /\ \A k \in DOMAIN s : s[k] = t[k]

HasFile(name) == name \in DOMAIN written

\* C16: in a cell that generates its ground truth from N sampled chunks of
\* which F fail, the saved ground-truth file holds exactly N - F items, the
\* report of the evaluator has total_questions = N - F, and so has the saved
\* report; a cell that reached its report has saved both files.
C16_ItemsAreSampledMinusFailed ==
  \A i \in DOMAIN chunk_sizes :
    genStats[i].mode = "generate" =>
      LET n == genStats[i].sampled - genStats[i].failed
          gt == GtFileName(chunk_sizes[i])
          rp == ReportFileName(chunk_sizes[i])
      IN /\ HasFile(gt) => Len(written[gt]) = n
         /\ HasFile(rp) => written[rp].total_questions = n
         /\ (sizeIdx = i /\ cellReport # NoReport) => cellReport.total_questions = n
         /\ sizeLog[i] = "reported" => HasFile(gt) /\ HasFile(rp)

C16_Witness ==
  \E i \in DOMAIN chunk_sizes :
    /\ genStats[i].mode = "generate"
    /\ genStats[i].failed >= 1
    /\ genStats[i].sampled - genStats[i].failed >= 1
    /\ HasFile(GtFileName(chunk_sizes[i]))
    /\ HasFile(ReportFileName(chunk_sizes[i]))
    /\ written[ReportFileName(chunk_sizes[i])].total_questions
         = genStats[i].sampled - genStats[i].failed

RemapPath ==
  <<"delete_all_chunks", "chunk_all_documents", "remap",
    "test_retrieval_quality", "save_report">>

GeneratePath ==
  <<"delete_all_chunks", "chunk_all_documents", "sample_chunks",
    "generate_ground_truths", "save_ground_truths",
    "test_retrieval_quality", "save_report">>

\* C17: the steps of a cell are entered in the order wipe, rebuild, ground
\* truth, evaluator, report; the ground truth is remapped, without any LLM
\* call, exactly when a file for the chunk size exists and generated
\* otherwise; the evaluator is entered only when every generation task has
\* completed; a report is saved under a name that holds the chunk size of its
\* cell; and a cell is entered only after the cell before it has finished.
C17_CellStepsInOrder ==
  /\ \A i \in DOMAIN chunk_sizes :
       /\ IsPrefix(CellSteps(i), RemapPath) \/ IsPrefix(CellSteps(i), GeneratePath)
       /\ genStats[i].mode = "remap" =>
            genStats[i].cached /\ genStats[i].llm_calls = 0
       /\ genStats[i].mode = "generate" =>
            /\ ~genStats[i].cached
            /\ genStats[i].llm_calls = genStats[i].sampled
       /\ (\E k \in DOMAIN trace :
             trace[k].cell = i /\ trace[k].step = "test_retrieval_quality")
            => genStats[i].mode \in {"remap", "generate"}
       /\ (i > 1 /\ CellSteps(i) # <<>>) => sizeLog[i - 1] \in {"reported", "skipped"}
  /\ \A j, k \in DOMAIN trace : j < k => trace[j].cell <= trace[k].cell
  /\ \A name \in DOMAIN written :
       name[1] = "report" =>
         /\ written[name].chunk_size = name[2]
         /\ \E i \in DOMAIN chunk_sizes :
              chunk_sizes[i] = name[2] /\ sizeLog[i] = "reported"

C17_Witness ==
  /\ wpc = "done"
  /\ \E i, j \in DOMAIN chunk_sizes :
       /\ CellSteps(i) = RemapPath
       /\ CellSteps(j) = GeneratePath
  /\ \A i \in DOMAIN chunk_sizes : HasFile(ReportFileName(chunk_sizes[i]))

\* C18: when the evaluator of a cell with freshly generated ground truth is
\* entered, the ground-truth file of the cell has been saved with the items
\* generated; so a run whose evaluation raises leaves that file behind.
C18_GroundTruthSavedBeforeEvaluation ==
  \A k \in DOMAIN trace :
    (trace[k].step = "test_retrieval_quality"
       /\ genStats[trace[k].cell].mode = "generate") =>
      LET gt == GtFileName(chunk_sizes[trace[k].cell])
      IN /\ HasFile(gt)
         /\ Len(written[gt]) = genStats[trace[k].cell].sampled
                                 - genStats[trace[k].cell].failed

C18_Witness ==
  /\ wpc = "aborted"
  /\ trace # <<>>
  /\ trace[Len(trace)].step = "test_retrieval_quality"
  /\ genStats[sizeIdx].mode = "generate"
  /\ genStats[sizeIdx].failed >= 1
  /\ HasFile(GtFileName(chunk_sizes[sizeIdx]))
  /\ ~HasFile(ReportFileName(chunk_sizes[sizeIdx]))

\* C19: after _update_table_schema failed in a configuration, the chunk
\* table is as it was when that migration started (its schema and its rows),
\* the configuration is logged as failed and the sweep has gone on to the
\* next configuration.
C19_FailedMigrationRolledBack ==
  lastMigration.outcome = "failed" =>
    /\ schema = lastMigration.schema
    /\ stored = lastMigration.rows
    /\ cellLog[lastMigration.cell] = "failed"
    /\ bpc # "aborted"

\* The table a call with the last call's document, overlap and failing
\* windows leaves when it asks for chunk_size = ChunkCap.
AsAtCap ==
  StoreAfterChunk(lastCall.before, lastCall.doc,
                  Windows(docs[lastCall.doc], ChunkCap, lastCall.overlap),
                  lastCall.failed, lastCall.first)

\* C20: no chunk in the table has more than 150 words, whatever chunk_size
\* was asked for; a call with chunk_size above 150 leaves the table, and
\* returns the count, that the same call with chunk_size = 150 leaves and
\* returns (the same windows as an earlier call with chunk_size = 150 and the
\* same overlap); it is answered with an error only where chunk_size = 150
\* is, at overlap = 150.
C20_CappedAt150 ==
  /\ \A c \in chunks : Len(c.content) <= ChunkCap
  /\ (lastCall.kind = "ok" /\ lastCall.chunk_size > ChunkCap) =>
       /\ chunks = AsAtCap
       /\ ret.count = Cardinality(AsAtCap \ lastCall.before)
       /\ ret.http = 200
       /\ (prevCall.kind = "ok" /\ prevCall.chunk_size = ChunkCap
             /\ prevCall.doc = lastCall.doc /\ prevCall.overlap = lastCall.overlap)
            => lastCall.windows = prevCall.windows
  /\ (lastCall.kind = "value_error" /\ lastCall.chunk_size > ChunkCap) =>
       lastCall.overlap = ChunkCap

C20_Witness ==
  /\ lastCall.kind = "ok" /\ lastCall.chunk_size > ChunkCap
  /\ prevCall.kind = "ok" /\ prevCall.chunk_size = ChunkCap
  /\ prevCall.doc = lastCall.doc /\ prevCall.overlap = lastCall.overlap
  /\ Len(docs[lastCall.doc]) > ChunkCap
  /\ Len(lastCall.windows) >= 2
  /\ \E c \in chunks : Len(c.content) = ChunkCap
  /\ ret.count >= 2

\* C21: at every instant at most PoolSize (max_workers) LLM calls are in
\* flight, however many chunks were sampled; _generate_ground_truths returns
\* only when the call of every sampled chunk was started and has completed;
\* and, once the tasks are submitted, it does return.
C21_BoundedPoolAllCompleted ==
  /\ [](Cardinality(InFlight(future)) <= PoolSize)
  /\ [](gpc = "returned" =>
          \A i \in DOMAIN sampled : attempts[i] = 1 /\ future[i].st = "done")
  /\ (gpc = "running" ~> gpc = "returned")

C21_Witness ==
  /\ gpc = "running"
  /\ Len(sampled) > PoolSize
  /\ Cardinality(InFlight(future)) = PoolSize
  /\ \E i \in DOMAIN future : future[i] = Queued

\* The step of the last call's range(): chunk_size, capped, minus overlap.
LastStep == CappedSize(lastCall.chunk_size) - lastCall.overlap

\* The last call got as far as the windowing and came back.
CameBack == lastCall.kind \in {"ok", "value_error"}

\* C22 as stated: a call with overlap >= chunk_size (after the cap) does not
\* come back, neither with a result nor with an error.
C22_NonPositiveStepStalls == CameBack => LastStep > 0

\* C22, amended: chunk_document has no guard of its own for overlap >=
\* chunk_size, and the call comes back all the same.  With a step of zero
\* range() raises ValueError, the table is untouched and the endpoint answers
\* 404; with a negative step range() is empty: the call returns 0, and the
\* chunks the document had are deleted.
C22_NonPositiveStepComesBack ==
  /\ (CameBack /\ LastStep = 0) =>
       /\ lastCall.kind = "value_error"
       /\ ret.http = 404
       /\ chunks = lastCall.before
  /\ (CameBack /\ LastStep < 0) =>
       /\ lastCall.kind = "ok"
       /\ lastCall.windows = <<>>
       /\ ret.count = 0
       /\ chunks = DeleteChunksOf(lastCall.before, lastCall.doc)
  /\ (lastCall.kind = "value_error") => LastStep = 0

C22_Witness ==
  /\ prevCall.kind = "ok" /\ prevCall.created # {}
  /\ lastCall.kind = "ok" /\ lastCall.doc = prevCall.doc
  /\ lastCall.chunk_size > ChunkCap
  /\ lastCall.chunk_size - lastCall.overlap > 0
  /\ LastStep < 0
  /\ ret.count = 0
  /\ \A c \in chunks : c.document_id # lastCall.doc

\* The call of thread t returned and no reset happened while it ran.
CleanCall(t) == status[t] = "done" /\ span[t][1] = span[t][2]

InstancesOf(g) == {i \in instances : i.g = g}

\* C23: whatever the interleaving of the threads, as long as the singleton is
\* not reset at most one instance of each service is constructed; between
\* resets at most one instance is stored; every call that returns without a
\* reset in between returns the stored instance, the same for all such calls
\* between the same resets; and when every thread has returned, exactly one
\* instance of each service asked for was constructed.
C23_OneInstancePerSingleton ==
  /\ resets = 0 => \A g \in Getters : Cardinality(InstancesOf(g)) <= 1
  /\ \A g \in Getters : \A i, j \in InstancesOf(g) :
       (i.stored /\ j.stored /\ i.resets = j.resets) => i = j
  /\ \A t \in Threads : CleanCall(t) =>
       /\ got[t].id # None
       /\ \E i \in InstancesOf(got[t].g) : i.id = got[t].id /\ i.stored
  /\ \A t, u \in Threads :
       (CleanCall(t) /\ CleanCall(u) /\ got[t].g = got[u].g /\ span[t] = span[u])
         => got[t].id = got[u].id
  /\ (resets = 0 /\ \A t \in Threads : status[t] = "done") =>
       \A t \in Threads : Cardinality(InstancesOf(got[t].g)) = 1

\* Two threads found no instance at the same time: one has constructed it and
\* returned, the other, past the first test, meets it at the second.
C23_Witness ==
  \E t, u \in Threads :
    /\ t # u
    /\ resets = 0
    /\ CleanCall(t)
    /\ status[u] = "calling" /\ Len(stack[u]) = 1
    /\ Top(u).g = got[t].g /\ Top(u).pc = "recheck"
    /\ singleton[got[t].g] = got[t].id

\* C24: once _index_chunks has returned, every (content, id) pair of
\* content_id_map is a committed row of the chunk table with that id and
\* that content.
C24_MapRefersToStoredRows ==
  bpc \in {"evaluate", "write"} =>
    \A c \in DOMAIN content_id_map :
      \E r \in stored : r.id = content_id_map[c] /\ r.content = c

\* C25: in the chunk-size evaluator, when the chunk the question was
\* generated from is at position p of the rows the vector search returned,
\* the question is recorded with found = true and rank = p, also when the
\* store holds several chunks with the same content.
C25_SourceChunkFoundAtItsPosition ==
  (Evaluated /\ evaluator = "chunk") =>
    \A p \in DOMAIN lastEntry.searched :
      lastEntry.searched[p] = lastEntry.expected_chunk_id =>
        lastEntry.found /\ lastEntry.rank = p

\* C26: the endpoint answers 404 only when the requested document does not
\* exist; for an existing document no chunk_size and overlap is answered 404.
C26_NotFoundOnlyForMissingDocument ==
  (ret # NoCall /\ ret.http = 404) => lastCall.doc \notin DOMAIN docs

\* C27: after a call that returned normally for a document of at least one
\* word, with every embedding succeeding, the document has a stored chunk;
\* and a call that created no chunk left the table as it was.
C27_ReturnedCallLeavesChunks ==
  (lastCall.kind = "ok" /\ Len(docs[lastCall.doc]) >= 1) =>
    /\ lastCall.failed = {} => \E c \in chunks : c.document_id = lastCall.doc
    /\ lastCall.created = {} => chunks = lastCall.before

\* The complete stream of a provider that does not raise.
CompleteStream(run, from) == [k \in 1..run.tokens |-> Token(from, k)]

PrimaryFailed == primary.present /\ primary.failAfter # Whole

\* C28: generate_response always comes to its end, and what it has yielded
\* then is the complete stream of the primary, or the complete stream of the
\* fallback (the primary being absent or having failed), or the error
\* message alone.
C28_StreamIsOneWholeAnswer ==
  lpc = "done" =>
    \/ /\ primary.present /\ ~PrimaryFailed
       /\ out = CompleteStream(primary, "primary")
    \/ /\ ~primary.present \/ PrimaryFailed
       /\ fallback.present /\ fallback.failAfter = Whole
       /\ out = CompleteStream(fallback, "fallback")
    \/ out = <<ErrorMessage>>

\* The entries of `results` with found, and those with keyword_match.
FoundEntries == Cardinality({k \in DOMAIN results : results[k].found})
KeywordMatchEntries == Cardinality({k \in DOMAIN results : results[k].keyword_match})

\* C29: in the report of either evaluator total_questions is the number of
\* entries of results, correct_retrievals the number of entries with found,
\* keyword_matches the number of entries with keyword_match, and neither
\* count is above total_questions.
C29_ReportAgreesWithResults ==
  epc = "reported" =>
    /\ report.total_questions = Len(results)
    /\ report.correct_retrievals = FoundEntries
    /\ report.keyword_matches = KeywordMatchEntries
    /\ report.correct_retrievals \in 0..report.total_questions
    /\ report.keyword_matches \in 0..report.total_questions

\* The word position just past window k of the last call: window k begins
\* at (k - 1) * step.
WindowEnd(k) ==
  (k - 1) * (lastCall.chunk_size - lastCall.overlap) + Len(lastCall.windows[k])

\* C30: for chunk_size <= 150 and 0 <= overlap < chunk_size every window but
\* the first reaches past the end of the window before it, i.e. holds a word
\* position the window before it does not.
C30_EveryWindowAddsAWord ==
  InPolicy(lastCall) =>
    \A k \in 2..Len(lastCall.windows) : WindowEnd(k) > WindowEnd(k - 1)
====
